---- MODULE Spec2Model ----
(***************************************************************************)
(* Model of the simulation core of space-invaders-js-v80:                  *)
(*   ProjectilePool  (src/src/services/ProjectilePool.ts, lines 15-157)    *)
(*   Projectile      (src/unnamed/part_004)                                *)
(*   GameLoop        (src/unnamed/part_002, lines 26-154)                  *)
(* Each component has its own specification (PoolSpec, LoopSpec) over the  *)
(* shared variable tuple; the variables of the other component stay at     *)
(* their constructed values.                                               *)
(*                                                                         *)
(* Numbers that are floats in the source (times in ms, seconds) are held   *)
(* as fixed-point integers with Scale units per 1.0.                       *)
(***************************************************************************)
EXTENDS Integers, Sequences, FiniteSets, TLC

VARIABLES
    \* ---- ProjectilePool ----
    pool,               \* Projectile[]: the slot array, each slot a Projectile
    activeProjectiles,  \* Set<Projectile>: indices of pool slots tracked active
    lastCall,           \* the last pool operation: [op, arg, ret]
    \* ---- GameLoop ----
    isRunning, lastFrameTime, accumulator, systems,
    frameCount, fpsTimer, currentFPS,
    pending,            \* callbacks registered with requestAnimationFrame
    now,                \* host clock: the latest time the host has reported
    fromStart,          \* now was read by start() and no callback has fired since
    frame,              \* what the last frame callback did
    calls,              \* the update/render calls of the last frame callback
    updatePasses,       \* completed update passes since construction
    cappedSum,          \* sum of the capped frame deltas since construction
    everThrew,          \* some system's update or render has thrown
    starts,             \* number of effective start() calls
    frames,             \* number of frame callbacks delivered
    startedWhileRunning, \* start() has been called on a running loop (traced runs)
    \* ---- CollisionSystem ----
    entities,           \* Map<string, Collidable>: the values in key order
    collisionHandlers,  \* Map<string, handler>: key string -> callback
    collisionCall,      \* the last CollisionSystem operation and its outcome
    \* ---- SpatialGrid ----
    cells,              \* Map<string, GridCell>: key -> set of entities
    position,           \* x and y of each Entity object
    indexed,            \* what the calls so far have told the grid of each entity
    \* ---- StateManager ----
    currentState,       \* GameStateType
    gameData,           \* GameStateData
    stateChangeHandlers, \* Set<StateChangeHandler>, in insertion order
    stateCall,          \* the last StateManager operation and its outcome
    \* ---- ShootingSystem ----
    lastShotTime,       \* Map<number, number>: entity id -> time of its last shot
    shootActive,        \* projectiles of the system's pool that are in use
    shootTime,          \* the latest currentTime a caller has passed to shoot
    shootCalls,         \* number of shoot calls so far
    shootCall,          \* the last ShootingSystem operation and its outcome
    shotHistory,        \* per entity: its last successful shot, and whether
                        \* reset() has run since
    \* ---- KeyboardInput ----
    keyStates,          \* Map<string, KeyState>
    enabled,
    keyCall,            \* the last KeyboardInput operation or event
    sinceDown           \* per key: the key events delivered since a keydown
                        \* that found the key up, that keydown included, and
                        \* 0 once update() has run

poolVars == <<pool, activeProjectiles, lastCall>>
loopVars == <<isRunning, lastFrameTime, accumulator, systems, frameCount,
              fpsTimer, currentFPS, pending, now, fromStart, frame, calls,
              updatePasses, cappedSum, everThrew, starts, frames,
              startedWhileRunning>>
vars == <<pool, activeProjectiles, lastCall,
          isRunning, lastFrameTime, accumulator, systems, frameCount,
          fpsTimer, currentFPS, pending, now, fromStart, frame, calls,
          updatePasses, cappedSum, everThrew, starts, frames,
          startedWhileRunning,
          entities, collisionHandlers, collisionCall,
          cells, position, indexed,
          currentState, gameData, stateChangeHandlers, stateCall,
          lastShotTime, shootActive, shootTime, shootCalls, shootCall,
          shotHistory,
          keyStates, enabled, keyCall, sinceDown>>
collisionVars == <<entities, collisionHandlers, collisionCall>>
gridVars == <<cells, position, indexed>>
stateVars == <<currentState, gameData, stateChangeHandlers, stateCall>>
shootVars == <<lastShotTime, shootActive, shootTime, shootCalls, shootCall,
               shotHistory>>
keyVars == <<keyStates, enabled, keyCall, sinceDown>>

\* what the operations of one component leave alone
nonPoolVars == <<loopVars, collisionVars, gridVars, stateVars, shootVars,
    keyVars>>
nonLoopVars == <<poolVars, collisionVars, gridVars, stateVars, shootVars,
    keyVars>>
nonCollisionVars == <<poolVars, loopVars, gridVars, stateVars, shootVars,
    keyVars>>
nonGridVars == <<poolVars, loopVars, collisionVars, stateVars, shootVars,
    keyVars>>
nonStateVars == <<poolVars, loopVars, collisionVars, gridVars, shootVars,
    keyVars>>
nonShootVars == <<poolVars, loopVars, collisionVars, gridVars, stateVars,
    keyVars>>
nonKeyVars == <<poolVars, loopVars, collisionVars, gridVars, stateVars,
    shootVars>>

Min(a, b) == IF a <= b THEN a ELSE b

(***************************************************************************)
(* ProjectilePool                                                          *)
(***************************************************************************)

\* maxSize passed to the constructor
maxSize == 2

\* config.maxSpeed, the speed every slot is built with
MaxSpeed == 300

SCREEN_WIDTH == 800
SCREEN_HEIGHT == 600

\* acquire returns null when the pool is exhausted
Null == 0

\* a Projectile that is not a slot of this pool
Foreign == 0

\* arguments the callers pass
AcquireXs == {400, 801}
AcquireYs == {300}
Directions == {-1, 1}
DeltaTimes == {1000}

\* new Projectile({x: 0, y: 0, ..., active: false})
NewProjectile == [x |-> 0, y |-> 0, direction |-> -1, active |-> FALSE]

\* initializePool: maxSize inactive slots
InitialPool == [i \in 1..maxSize |-> NewProjectile]

\* Projectile.isActive: reads the active flag
IsActive(p) == p.active

\* Projectile.deactivate
Deactivated(p) == [p EXCEPT !.active = FALSE]

\* Projectile.reset: new position and direction, active again
ResetProjectile(p, x, y, direction) ==
    [p EXCEPT !.x = x, !.y = y, !.direction = direction, !.active = TRUE]

\* Projectile.update: only y moves, by speed * direction * (deltaTime / 1000)
UpdatedProjectile(p, deltaTime) ==
    [p EXCEPT !.y = p.y + (MaxSpeed * p.direction * deltaTime) \div 1000]

\* ProjectilePool.isOutOfBounds
isOutOfBounds(p) ==
    \/ p.x < 0
    \/ p.x > SCREEN_WIDTH
    \/ p.y < 0
    \/ p.y > SCREEN_HEIGHT

\* ProjectilePool.getActiveCount
getActiveCount == Cardinality(activeProjectiles)

\* this.pool.find(p => !p.isActive()): index of the first inactive slot, 0 if none
FindInactive(slots) ==
    IF \E i \in 1..Len(slots) : ~IsActive(slots[i])
    THEN CHOOSE i \in 1..Len(slots) :
            /\ ~IsActive(slots[i])
            /\ \A j \in 1..(i - 1) : IsActive(slots[j])
    ELSE 0

\* acquire with a pool that allocates a new slot when none is inactive
AcquireGrowing(slots, active, x, y, direction) ==
    LET i == FindInactive(slots) IN
    IF i = 0
    THEN [pool |-> Append(slots, ResetProjectile(NewProjectile, x, y, direction)),
          active |-> active \cup {Len(slots) + 1},
          ret |-> Len(slots) + 1]
    ELSE [pool |-> [slots EXCEPT ![i] = ResetProjectile(slots[i], x, y, direction)],
          active |-> active \cup {i},
          ret |-> i]

\* ProjectilePool.acquire: the slot array, the active set and the return value
AcquireResult(slots, active, x, y, direction) ==
    LET i == FindInactive(slots) IN
    IF i = 0
    THEN [pool |-> slots, active |-> active, ret |-> Null]
    ELSE [pool |-> [slots EXCEPT ![i] = ResetProjectile(slots[i], x, y, direction)],
          active |-> active \cup {i},
          ret |-> i]

\* release that rejects a projectile it does not track with an exception
ReleaseThrowing(slots, active, p) ==
    IF p \notin active
    THEN [pool |-> slots, active |-> active, ret |-> FALSE, threw |-> TRUE]
    ELSE [pool |-> [slots EXCEPT ![p] = Deactivated(slots[p])],
          active |-> active \ {p},
          ret |-> TRUE, threw |-> FALSE]

\* release that untracks the projectile and leaves its flag set
ReleaseKeepingFlag(slots, active, p) ==
    IF p \notin active
    THEN [pool |-> slots, active |-> active, ret |-> FALSE, threw |-> FALSE]
    ELSE [pool |-> slots, active |-> active \ {p}, ret |-> TRUE, threw |-> FALSE]

\* ProjectilePool.release: ret is FALSE on the warning path; nothing throws
ReleaseResult(slots, active, p) ==
    IF p \notin active
    THEN [pool |-> slots, active |-> active, ret |-> FALSE, threw |-> FALSE]
    ELSE [pool |-> [slots EXCEPT ![p] = Deactivated(slots[p])],
          active |-> active \ {p},
          ret |-> TRUE, threw |-> FALSE]

\* update step that tests the projectile before it advances it
UpdateOneTestFirst(slots, active, p, deltaTime) ==
    LET moved == [slots EXCEPT ![p] = UpdatedProjectile(slots[p], deltaTime)] IN
    IF ~IsActive(slots[p]) \/ isOutOfBounds(slots[p])
    THEN ReleaseResult(moved, active, p)
    ELSE [pool |-> moved, active |-> active, ret |-> FALSE, threw |-> FALSE]

\* ProjectilePool.update for one projectile of the active set:
\* advance it, then release it when it is inactive or out of bounds
UpdateOne(slots, active, p, deltaTime) ==
    LET moved == [slots EXCEPT ![p] = UpdatedProjectile(slots[p], deltaTime)] IN
    IF ~IsActive(moved[p]) \/ isOutOfBounds(moved[p])
    THEN ReleaseResult(moved, active, p)
    ELSE [pool |-> moved, active |-> active, ret |-> FALSE, threw |-> FALSE]

\* the for-of loop over the active set; a slot deleted during the iteration
\* has already been visited, so every member is visited exactly once
RECURSIVE UpdateAll(_, _, _, _)
UpdateAll(slots, active, todo, deltaTime) ==
    IF todo = {}
    THEN [pool |-> slots, active |-> active]
    ELSE LET p == CHOOSE q \in todo : \A r \in todo : q <= r
             one == UpdateOne(slots, active, p, deltaTime)
         IN UpdateAll(one.pool, one.active, todo \ {p}, deltaTime)

\* a clear that empties the active set and leaves the projectiles alone
ForgetAll(slots, active, todo) == [pool |-> slots, active |-> {}]

\* the for-of loop of clear
RECURSIVE ReleaseAll(_, _, _)
ReleaseAll(slots, active, todo) ==
    IF todo = {}
    THEN [pool |-> slots, active |-> active]
    ELSE LET p == CHOOSE q \in todo : \A r \in todo : q <= r
             one == ReleaseResult(slots, active, p)
         IN ReleaseAll(one.pool, one.active, todo \ {p})

Acquire(x, y, direction) ==
    LET r == AcquireResult(pool, activeProjectiles, x, y, direction) IN
    /\ pool' = r.pool
    /\ activeProjectiles' = r.active
    /\ lastCall' = [op |-> "acquire", arg |-> <<x, y, direction>>, ret |-> r.ret,
                    threw |-> FALSE]
    /\ UNCHANGED nonPoolVars

Release(p) ==
    LET r == ReleaseResult(pool, activeProjectiles, p) IN
    /\ pool' = r.pool
    /\ activeProjectiles' = r.active
    /\ lastCall' = [op |-> "release", arg |-> p, ret |-> Null, threw |-> r.threw]
    /\ UNCHANGED nonPoolVars

Update(deltaTime) ==
    LET r == UpdateAll(pool, activeProjectiles, activeProjectiles, deltaTime) IN
    /\ pool' = r.pool
    /\ activeProjectiles' = r.active
    /\ lastCall' = [op |-> "update", arg |-> deltaTime, ret |-> Null, threw |-> FALSE]
    /\ UNCHANGED nonPoolVars

Clear ==
    LET r == ReleaseAll(pool, activeProjectiles, activeProjectiles) IN
    /\ pool' = r.pool
    /\ activeProjectiles' = r.active
    /\ lastCall' = [op |-> "clear", arg |-> Null, ret |-> Null, threw |-> FALSE]
    /\ UNCHANGED nonPoolVars

\* a holder calls Projectile.deactivate() on a projectile it acquired
HolderDeactivate(p) ==
    /\ p \in activeProjectiles
    /\ pool' = [pool EXCEPT ![p] = Deactivated(pool[p])]
    /\ lastCall' = [op |-> "deactivate", arg |-> p, ret |-> Null, threw |-> FALSE]
    /\ UNCHANGED activeProjectiles
    /\ UNCHANGED nonPoolVars

(***************************************************************************)
(* GameLoop                                                                *)
(***************************************************************************)

\* fixed-point units per 1.0: two decimals for times in ms (16.67, 33.3)
\* and three more for the division by 1000 that converts them to seconds
Scale == 100 * 1000

\* config.updateInterval: 16.67 ms
updateInterval == 1667000

\* config.maxFrameTime: 33.3 ms
maxFrameTime == 3330000

\* the 1000 ms window of the FPS counter
FpsWindow == 1000 * Scale

\* the systems a game can register; odd ones expose render()
SystemIds == {1, 2, 3}
HasRender(s) == s % 2 = 1

MaxFrames == 2
MaxStarts == 2

\* time between the last host time and performance.now() in start(): 10 ms
StartGap == 10 * Scale

\* a first callback timestamp 5 ms before the performance.now() of start()
EarlyDelta == (-5) * Scale

\* time between host frames: 10 ms, 50 ms, 1000 ms
FrameDeltas == {10 * Scale, 50 * Scale, 1000 * Scale}

\* this.config.updateInterval / 1000
ToSeconds(ms) == ms \div 1000

\* frame delta passed on without the cap
UncappedDelta(raw) == raw

\* Math.min(deltaTime, this.config.maxFrameTime)
CappedDelta(raw) == Min(raw, maxFrameTime)

\* update pass that walks the systems last to first
UpdateCallsReversed(sys, deltaTime, pass, throwIdx) ==
    LET n == IF throwIdx = 0 THEN Len(sys) ELSE Len(sys) + 1 - throwIdx IN
    [i \in 1..n |-> [op |-> "update", sys |-> sys[Len(sys) + 1 - i],
                     dt |-> deltaTime, pass |-> pass,
                     threw |-> (Len(sys) + 1 - i = throwIdx)]]

\* update pass that goes on to the next system when one throws
UpdateCallsIsolated(sys, deltaTime, pass, throwIdx) ==
    [i \in 1..Len(sys) |-> [op |-> "update", sys |-> sys[i], dt |-> deltaTime,
                            pass |-> pass, threw |-> (i = throwIdx)]]

\* GameLoop.update: the calls of one pass over the systems, in array order;
\* the pass ends at the system that throws (throwIdx, 0 for none)
UpdateCalls(sys, deltaTime, pass, throwIdx) ==
    LET n == IF throwIdx = 0 THEN Len(sys) ELSE throwIdx IN
    [i \in 1..n |-> [op |-> "update", sys |-> sys[i], dt |-> deltaTime,
                     pass |-> pass, threw |-> (i = throwIdx)]]

\* GameLoop.render: the calls over the systems that expose render, in array
\* order, ending at the system that throws (throwIdx, 0 for none)
RECURSIVE RenderCalls(_, _, _)
RenderCalls(sys, i, throwIdx) ==
    IF i > Len(sys) \/ (throwIdx # 0 /\ i > throwIdx)
    THEN <<>>
    ELSE IF HasRender(sys[i])
         THEN <<[op |-> "render", sys |-> sys[i], dt |-> 0, pass |-> 0,
                 threw |-> (i = throwIdx)]>> \o RenderCalls(sys, i + 1, throwIdx)
         ELSE RenderCalls(sys, i + 1, throwIdx)

\* drain loop that hands the frame delta to the systems
DrainStepRawDelta(deltaTime) == ToSeconds(deltaTime)

\* the deltaTime argument of this.update in the drain loop
DrainStep(deltaTime) == ToSeconds(updateInterval)

\* drain loop that ends once a system has stopped the loop
StillDrainsWhileRunning(acc, running) == running /\ acc >= updateInterval

\* while (this.accumulator >= this.config.updateInterval)
StillDrains(acc, running) == acc >= updateInterval

\* the while loop of GameLoop.loop: throwAt = <<pass, system index>> is the
\* update call that throws (<<0, 0>> for none); a throw leaves the loop
\* before the accumulator is decremented. stopPass is the pass in which a
\* system calls stop() from its update (0 for none): isRunning is false in
\* the passes after it
RECURSIVE Drain(_, _, _, _, _, _, _)
Drain(acc, pass, log, sys, deltaTime, throwAt, stopPass) ==
    IF StillDrains(acc, stopPass = 0 \/ pass <= stopPass)
    THEN IF throwAt[1] = pass
         THEN [acc |-> acc, passes |-> pass - 1, threw |-> TRUE,
               log |-> log \o UpdateCalls(sys, DrainStep(deltaTime), pass, throwAt[2])]
         ELSE Drain(acc - updateInterval, pass + 1,
                    log \o UpdateCalls(sys, DrainStep(deltaTime), pass, 0),
                    sys, deltaTime, throwAt, stopPass)
    ELSE [acc |-> acc, passes |-> pass - 1, threw |-> FALSE, log |-> log]

\* number of passes the drain loop makes from acc when nothing throws
RECURSIVE DrainPasses(_)
DrainPasses(acc) ==
    IF acc >= updateInterval THEN 1 + DrainPasses(acc - updateInterval) ELSE 0

\* loop that schedules the next frame whatever happened
RescheduleAlways(updateThrew, renderThrew) == TRUE

\* the next frame is requested unless an error path returned
Reschedule(updateThrew, renderThrew) == ~updateThrew /\ ~renderThrew

\* the calls of one frame callback: the drain loop, then the render pass
FrameCalls(updateLog, renderLog) == updateLog \o renderLog

NoFrame == [ran |-> FALSE, raw |-> 0, added |-> 0, accBefore |-> 0,
            passes |-> 0, updateThrew |-> FALSE, renderThrew |-> FALSE,
            rescheduled |-> FALSE, stopPass |-> 0]

LoopInit ==
    /\ isRunning = FALSE
    /\ lastFrameTime = 0
    /\ accumulator = 0
    /\ systems = <<>>
    /\ frameCount = 0
    /\ fpsTimer = 0
    /\ currentFPS = 0
    /\ pending = 0
    /\ now = 0
    /\ fromStart = FALSE
    /\ frame = NoFrame
    /\ calls = <<>>
    /\ updatePasses = 0
    /\ cappedSum = 0
    /\ everThrew = FALSE
    /\ starts = 0
    /\ frames = 0
    /\ startedWhileRunning = FALSE

\* GameLoop.addSystem
AddSystem(s) ==
    /\ \A i \in 1..Len(systems) : systems[i] # s
    /\ systems' = Append(systems, s)
    /\ UNCHANGED <<isRunning, lastFrameTime, accumulator, frameCount, fpsTimer,
                   currentFPS, pending, now, fromStart, frame, calls,
                   updatePasses, cappedSum, everThrew, starts, frames,
                   startedWhileRunning>>
    /\ UNCHANGED nonLoopVars

\* start without the isRunning test: snapshots and schedules every time
StartBodyUnguarded ==
    /\ starts < MaxStarts
    /\ isRunning' = TRUE
    /\ now' = now + StartGap
    /\ lastFrameTime' = now'
    /\ fpsTimer' = now'
    /\ pending' = pending + 1
    /\ fromStart' = TRUE
    /\ starts' = starts + 1
    /\ UNCHANGED <<accumulator, systems, frameCount, currentFPS, frame, calls,
                   updatePasses, cappedSum, everThrew, frames>>
    /\ UNCHANGED nonLoopVars

\* start that begins every run with an empty accumulator and FPS counter
StartBodyResetting ==
    /\ starts < MaxStarts
    /\ IF isRunning
       THEN UNCHANGED <<isRunning, lastFrameTime, fpsTimer, pending, now,
                      fromStart, starts, accumulator, frameCount>>
       ELSE /\ isRunning' = TRUE
            /\ now' = now + StartGap
            /\ lastFrameTime' = now'
            /\ fpsTimer' = now'
            /\ pending' = pending + 1
            /\ fromStart' = TRUE
            /\ starts' = starts + 1
            /\ accumulator' = 0
            /\ frameCount' = 0
    /\ UNCHANGED <<systems, currentFPS, frame, calls, updatePasses, cappedSum,
                   everThrew, frames>>
    /\ UNCHANGED nonLoopVars

\* GameLoop.start: what it does to the loop
StartBody ==
    /\ starts < MaxStarts
    /\ IF isRunning
       THEN UNCHANGED <<isRunning, lastFrameTime, fpsTimer, pending, now,
                      fromStart, starts>>
       ELSE /\ isRunning' = TRUE
            /\ now' = now + StartGap
            /\ lastFrameTime' = now'
            /\ fpsTimer' = now'
            /\ pending' = pending + 1
            /\ fromStart' = TRUE
            /\ starts' = starts + 1
    /\ UNCHANGED <<accumulator, systems, frameCount, currentFPS, frame, calls,
                   updatePasses, cappedSum, everThrew, frames>>
    /\ UNCHANGED nonLoopVars

\* GameLoop.start
Start == StartBody /\ UNCHANGED startedWhileRunning

\* GameLoop.start, noting a call that found the loop running
StartTraced ==
    StartBody /\ startedWhileRunning' = (startedWhileRunning \/ isRunning)

\* GameLoop.stop
Stop ==
    /\ isRunning' = FALSE
    /\ UNCHANGED <<lastFrameTime, accumulator, systems, frameCount, fpsTimer,
                   currentFPS, pending, now, fromStart, frame, calls,
                   updatePasses, cappedSum, everThrew, starts, frames,
                   startedWhileRunning>>
    /\ UNCHANGED nonLoopVars

\* a callback that does not test isRunning
NeverReturnsAtOnce(running) == FALSE

\* if (!this.isRunning) return
ReturnsAtOnce(running) == ~running

\* the host runs one registered callback: GameLoop.loop(currentTime).
\* d is the time since the host's last report, throwAt the update call that
\* throws, renderThrow the index of the system whose render throws and
\* stopPass the update pass in which a system calls stop() (0 for none).
FrameBody(d, throwAt, renderThrow, stopPass) ==
    /\ pending > 0
    /\ frames < MaxFrames
    /\ frames' = frames + 1
    /\ fromStart' = FALSE
    /\ LET currentTime == now + d IN
       /\ now' = IF currentTime > now THEN currentTime ELSE now
       /\ IF ReturnsAtOnce(isRunning)
          THEN /\ pending' = pending - 1
               /\ frame' = NoFrame
               /\ calls' = <<>>
               /\ UNCHANGED <<isRunning, lastFrameTime, accumulator, frameCount,
                              fpsTimer, currentFPS, updatePasses, cappedSum,
                              everThrew>>
          ELSE LET raw == currentTime - lastFrameTime
                   deltaTime == CappedDelta(raw)
                   acc1 == accumulator + deltaTime
                   count1 == frameCount + 1
                   fpsHit == currentTime - fpsTimer >= FpsWindow
                   dr == Drain(acc1, 1, <<>>, systems, deltaTime, throwAt, stopPass)
                   rThrow == IF dr.threw THEN 0 ELSE renderThrow
                   renderLog == IF dr.threw THEN <<>>
                                ELSE RenderCalls(systems, 1, rThrow)
                   again == Reschedule(dr.threw, rThrow # 0)
               IN
               /\ IF throwAt = <<0, 0>> THEN TRUE
                  ELSE throwAt[1] <= DrainPasses(acc1)
               /\ IF renderThrow = 0 THEN TRUE
                  ELSE ~dr.threw /\ HasRender(systems[renderThrow])
               /\ IF stopPass = 0 THEN TRUE
                  ELSE /\ Len(systems) > 0
                       /\ stopPass <= DrainPasses(acc1)
                       /\ (throwAt[1] = 0 \/ stopPass <= throwAt[1])
               /\ accumulator' = dr.acc
               /\ lastFrameTime' = currentTime
               /\ frameCount' = IF fpsHit THEN 0 ELSE count1
               /\ currentFPS' = IF fpsHit THEN count1 ELSE currentFPS
               /\ fpsTimer' = IF fpsHit THEN currentTime ELSE fpsTimer
               /\ isRunning' = IF dr.threw \/ rThrow # 0 \/ stopPass # 0
                               THEN FALSE ELSE isRunning
               /\ pending' = IF again THEN pending ELSE pending - 1
               /\ calls' = FrameCalls(dr.log, renderLog)
               /\ frame' = [ran |-> TRUE, raw |-> raw, added |-> deltaTime,
                            accBefore |-> accumulator, passes |-> dr.passes,
                            updateThrew |-> dr.threw, renderThrew |-> rThrow # 0,
                            rescheduled |-> again, stopPass |-> stopPass]
               /\ updatePasses' = updatePasses + dr.passes
               /\ cappedSum' = cappedSum + deltaTime
               /\ everThrew' = (everThrew \/ dr.threw \/ rThrow # 0)
    /\ UNCHANGED <<systems, starts, startedWhileRunning>>
    /\ UNCHANGED nonLoopVars

\* a callback during which no system touches the loop
Frame(d, throwAt, renderThrow) == FrameBody(d, throwAt, renderThrow, 0)

\* a callback during which a system calls stop() from its update
FrameStopping(d, throwAt, renderThrow, stopPass) ==
    /\ isRunning
    /\ stopPass # 0
    /\ FrameBody(d, throwAt, renderThrow, stopPass)

\* ---------------------------------------------------------------------
\* CollisionSystem (src/src/systems/CollisionSystem.ts)
\* ---------------------------------------------------------------------

\* the type tags the repository's collision tests give their entities
PLAYER == "player"
ENEMY == "enemy"

\* entity.id of an object that has no id property
MissingId == "<undefined>"

\* the Collidable objects the callers hold; 1 and 4 carry the same id,
\* 5 has an empty id and 6 none
Collidables ==
    { [ref |-> 1, id |-> "a", type |-> PLAYER],
      [ref |-> 2, id |-> "b", type |-> ENEMY],
      [ref |-> 3, id |-> "c", type |-> ENEMY],
      [ref |-> 4, id |-> "a", type |-> ENEMY],
      [ref |-> 5, id |-> "", type |-> PLAYER],
      [ref |-> 6, id |-> MissingId, type |-> ENEMY] }

\* ids handed to unregisterEntity: the ids above and one never registered
EntityIds == {"a", "b", "c", "zz"}

BoundingBox(x, y) == [x |-> x, y |-> y, width |-> 32, height |-> 32]

\* the two places getBoundingBox() may report for an object when
\* update() asks
BoxChoices(o) ==
    CASE o.ref = 1 -> <<BoundingBox(0, 0), BoundingBox(16, 0)>>
      [] o.ref = 2 -> <<BoundingBox(16, 0), BoundingBox(32, 0)>>
      [] o.ref = 3 -> <<BoundingBox(32, 0), BoundingBox(32, 32)>>
      [] OTHER -> <<BoundingBox(16, 0), BoundingBox(200, 200)>>

\* the callbacks handed to registerCollisionHandler, and the type pairs
Handlers == {"h1", "h2"}
HandlerTypes == {<<PLAYER, ENEMY>>, <<ENEMY, PLAYER>>, <<ENEMY, ENEMY>>}

\* the invocation of the tick that throws (0: none does)
HandlerThrows == {0, 1, 2}

Range(s) == {s[i] : i \in 1..Len(s)}

\* !entity.id
Falsy(id) == id = "" \/ id = MissingId

\* CollisionSystem.getCollisionKey
getCollisionKey(type1, type2) == type1 \o ":" \o type2

\* key position of id in the Map, 0 if absent
KeyIndex(map, id) ==
    IF \E i \in 1..Len(map) : map[i].id = id
    THEN CHOOSE i \in 1..Len(map) : map[i].id = id
    ELSE 0

\* a Map.set that adds an entry without looking for the key
MapSetAppending(map, entity) == Append(map, entity)

\* Map.set: a known key keeps its place and gets the new value
MapSet(map, entity) ==
    LET i == KeyIndex(map, entity.id) IN
    IF i = 0 THEN Append(map, entity) ELSE [map EXCEPT ![i] = entity]

\* Map.delete
MapDelete(map, id) == SelectSeq(map, LAMBDA e : e.id # id)

\* CollisionSystem.getEntityCount
getEntityCount == Len(entities)

\* an update that scans every registered entity
AllEntities(values, active) == values

\* Array.from(this.entities.values()).filter(entity => entity.isActive())
ActiveEntities(values, active) == SelectSeq(values, LAMBDA e : active[e])

\* overlap test that counts touching edges
checkCollisionInclusive(box1, box2) ==
    /\ box1.x <= box2.x + box2.width
    /\ box1.x + box1.width >= box2.x
    /\ box1.y <= box2.y + box2.height
    /\ box1.y + box1.height >= box2.y

\* CollisionSystem.checkCollision
checkCollision(box1, box2) ==
    /\ box1.x < box2.x + box2.width
    /\ box1.x + box1.width > box2.x
    /\ box1.y < box2.y + box2.height
    /\ box1.y + box1.height > box2.y

NoHandler == "undefined"

MapGet(map, key) == IF key \in DOMAIN map THEN map[key] ELSE NoHandler

\* lookup that tries the reversed key first
FindHandlerReversed(map, type1, type2) ==
    LET key1 == getCollisionKey(type1, type2)
        key2 == getCollisionKey(type2, type1)
    IN IF MapGet(map, key2) # NoHandler THEN MapGet(map, key2)
       ELSE MapGet(map, key1)

\* this.collisionHandlers.get(key1) || this.collisionHandlers.get(key2)
FindHandler(map, type1, type2) ==
    LET key1 == getCollisionKey(type1, type2)
        key2 == getCollisionKey(type2, type1)
    IN IF MapGet(map, key1) # NoHandler THEN MapGet(map, key1)
       ELSE MapGet(map, key2)

\* dispatch that hands the pair over in the order of the types the handler
\* was registered with
handleCollisionInHandlerOrder(entity1, entity2) ==
    LET key1 == getCollisionKey(entity1.type, entity2.type)
        handler == FindHandler(collisionHandlers, entity1.type, entity2.type)
    IN IF handler = NoHandler THEN <<>>
       ELSE IF MapGet(collisionHandlers, key1) # NoHandler
       THEN <<[entity1 |-> entity1, entity2 |-> entity2, handler |-> handler]>>
       ELSE <<[entity1 |-> entity2, entity2 |-> entity1, handler |-> handler]>>

\* CollisionSystem.handleCollision: the invocation it makes, if any
handleCollision(entity1, entity2) ==
    LET handler == FindHandler(collisionHandlers, entity1.type, entity2.type)
    IN IF handler # NoHandler
       THEN <<[entity1 |-> entity1, entity2 |-> entity2, handler |-> handler]>>
       ELSE <<>>

\* the nested loops of CollisionSystem.update from the pair (i, j) on;
\* a throwing handler ends the scan, nothing in update() catches it
RECURSIVE Scan(_, _, _, _, _, _)
Scan(activeEntities, box, i, j, log, throwAt) ==
    IF i >= Len(activeEntities) THEN [log |-> log, threw |-> FALSE]
    ELSE IF j > Len(activeEntities)
    THEN Scan(activeEntities, box, i + 1, i + 2, log, throwAt)
    ELSE LET entity1 == activeEntities[i]
             entity2 == activeEntities[j]
             log2 == IF checkCollision(box[entity1], box[entity2])
                     THEN log \o handleCollision(entity1, entity2)
                     ELSE log
         IN IF Len(log2) > Len(log) /\ Len(log2) = throwAt
            THEN [log |-> log2, threw |-> TRUE]
            ELSE Scan(activeEntities, box, i, j + 1, log2, throwAt)

\* no handler of the tick deactivates an entity
NoDeactivation == [at |-> 0, side |-> 0]

NoTick == [activeEntities |-> <<>>, box |-> <<>>, active |-> <<>>, log |-> <<>>,
           deactivated |-> NoDeactivation]

CollisionInit ==
    /\ entities = <<>>
    /\ collisionHandlers = <<>>
    /\ collisionCall = [op |-> "new", arg |-> <<>>, before |-> <<>>,
                        threw |-> FALSE, tick |-> NoTick]

\* CollisionSystem.registerEntity
RegisterEntity(entity) ==
    /\ IF Falsy(entity.id)
       THEN /\ UNCHANGED entities
            /\ collisionCall' = [op |-> "registerEntity", arg |-> entity,
                                 before |-> entities, threw |-> TRUE,
                                 tick |-> NoTick]
       ELSE /\ entities' = MapSet(entities, entity)
            /\ collisionCall' = [op |-> "registerEntity", arg |-> entity,
                                 before |-> entities, threw |-> FALSE,
                                 tick |-> NoTick]
    /\ UNCHANGED collisionHandlers
    /\ UNCHANGED nonCollisionVars

\* CollisionSystem.unregisterEntity
UnregisterEntity(entityId) ==
    /\ entities' = MapDelete(entities, entityId)
    /\ collisionCall' = [op |-> "unregisterEntity", arg |-> entityId,
                         before |-> entities, threw |-> FALSE, tick |-> NoTick]
    /\ UNCHANGED collisionHandlers
    /\ UNCHANGED nonCollisionVars

\* CollisionSystem.registerCollisionHandler
RegisterCollisionHandler(type1, type2, handler) ==
    /\ collisionHandlers' =
         LET key == getCollisionKey(type1, type2) IN
         [k \in DOMAIN collisionHandlers \cup {key} |->
            IF k = key THEN handler ELSE collisionHandlers[k]]
    /\ collisionCall' = [op |-> "registerCollisionHandler",
                         arg |-> <<type1, type2, handler>>, before |-> <<>>,
                         threw |-> FALSE, tick |-> NoTick]
    /\ UNCHANGED entities
    /\ UNCHANGED nonCollisionVars

\* CollisionSystem.update; active and box are what isActive() and
\* getBoundingBox() answer as the call begins, throwAt is the invocation
\* that throws, and deactivation names the invocation whose handler
\* deactivates one of its two entities (at) and which one (side). isActive()
\* is read by the filter alone, so the scan does not see the deactivation
CollisionUpdateBody(active, box, throwAt, deactivation) ==
    LET activeEntities == ActiveEntities(entities, active)
        scan == Scan(activeEntities, box, 1, 2, <<>>, throwAt)
    IN /\ IF throwAt = 0 THEN TRUE ELSE scan.threw
       /\ deactivation.at <= Len(scan.log)
       /\ collisionCall' = [op |-> "update", arg |-> throwAt, before |-> <<>>,
                            threw |-> scan.threw,
                            tick |-> [activeEntities |-> activeEntities,
                                      box |-> box, active |-> active,
                                      log |-> scan.log,
                                      deactivated |-> deactivation]]
       /\ UNCHANGED <<entities, collisionHandlers>>
       /\ UNCHANGED nonCollisionVars

\* an update() whose handlers leave the entities active
CollisionUpdate(active, box, throwAt) ==
    CollisionUpdateBody(active, box, throwAt, NoDeactivation)

\* an update() in which the handler of invocation at deactivates the
\* entity1 (side 1) or the entity2 (side 2) of its event
CollisionUpdateDeactivating(active, box, at, side) ==
    CollisionUpdateBody(active, box, 0, [at |-> at, side |-> side])

\* CollisionSystem.clear
CollisionClear ==
    /\ entities' = <<>>
    /\ collisionHandlers' = <<>>
    /\ collisionCall' = [op |-> "clear", arg |-> <<>>, before |-> <<>>,
                         threw |-> FALSE, tick |-> NoTick]
    /\ UNCHANGED nonCollisionVars

\* what the registered objects may answer to isActive() and getBoundingBox()
ActiveAnswers == [Range(entities) -> BOOLEAN]
BoxAnswers ==
    {[o \in Range(entities) |-> BoxChoices(o)[c[o]]] :
        c \in [Range(entities) -> {1, 2}]}

CollisionNext ==
    \/ \E entity \in Collidables : RegisterEntity(entity)
    \/ \E entityId \in EntityIds : UnregisterEntity(entityId)
    \/ \E t \in HandlerTypes, h \in Handlers :
          RegisterCollisionHandler(t[1], t[2], h)
    \/ \E active \in ActiveAnswers, box \in BoxAnswers,
          throwAt \in HandlerThrows : CollisionUpdate(active, box, throwAt)
    \/ CollisionClear

\* ---------------------------------------------------------------------
\* SpatialGrid (src/src/services/ProjectilePool.ts)
\* ---------------------------------------------------------------------

\* constructor default of cellSize
cellSize == 100

\* the Entity objects the callers hold; x and y are in position
GridEntities ==
    { [id |-> "A", width |-> 40, height |-> 40],
      [id |-> "B", width |-> 40, height |-> 40] }

\* where the callers place their entities
Positions == {<<-10, 0>>, <<60, 0>>, <<90, 0>>, <<110, 0>>, <<90, 90>>}
StartPosition == <<60, 0>>

\* Math.floor(v / this.cellSize)
GridCoordinate(v) == v \div cellSize

\* `${gridX},${gridY}`
CellKey(gridX, gridY) == ToString(gridX) \o "," \o ToString(gridY)

\* SpatialGrid.getCellKey
getCellKey(x, y) == CellKey(GridCoordinate(x), GridCoordinate(y))

\* cell list that holds the cell of the top-left corner only
getCellsOfCornerOnly(entity, x, y) == <<getCellKey(x, y)>>

\* SpatialGrid.getCellsForEntityAtPosition: the keys row by row
getCellsForEntityAtPosition(entity, x, y) ==
    LET startX == GridCoordinate(x)
        startY == GridCoordinate(y)
        endX == GridCoordinate(x + entity.width)
        endY == GridCoordinate(y + entity.height)
        perRow == endX - startX + 1
        rows == endY - startY + 1
    IN [i \in 1..(perRow * rows) |->
          CellKey(startX + ((i - 1) % perRow), startY + ((i - 1) \div perRow))]

\* SpatialGrid.getCellsForEntity
getCellsForEntity(entity) ==
    getCellsForEntityAtPosition(entity, position[entity][1], position[entity][2])

\* an insert that starts every cell it touches afresh
AddToCellsAfresh(map, entity, keys) ==
    [k \in DOMAIN map \cup keys |-> IF k \in keys THEN {entity} ELSE map[k]]

\* the loop of insertEntity over the keys: create the cell if missing, add
AddToCells(map, entity, keys) ==
    [k \in DOMAIN map \cup keys |->
        IF k \in keys
        THEN (IF k \in DOMAIN map THEN map[k] ELSE {}) \cup {entity}
        ELSE map[k]]

\* the loop of removeEntity over the keys: delete from the cell if it
\* exists, and delete the cell if that leaves it empty
DeleteFromCells(map, entity, keys) ==
    LET kept == {k \in DOMAIN map : ~(k \in keys /\ map[k] \ {entity} = {})}
    IN [k \in kept |-> IF k \in keys THEN map[k] \ {entity} ELSE map[k]]

\* an update that deletes the entity from every cell of the old position
KeysLeftAll(entity, oldX, oldY) ==
    Range(getCellsForEntityAtPosition(entity, oldX, oldY))

\* the first loop of updateEntity: the old keys that are not new keys
KeysLeft(entity, oldX, oldY) ==
    Range(getCellsForEntityAtPosition(entity, oldX, oldY))
        \ Range(getCellsForEntity(entity))

\* the second loop of updateEntity: the new keys that are not old keys
KeysEntered(entity, oldX, oldY) ==
    Range(getCellsForEntity(entity))
        \ Range(getCellsForEntityAtPosition(entity, oldX, oldY))

\* SpatialGrid.updateEntity on a cell map
UpdateCells(map, entity, oldX, oldY) ==
    AddToCells(DeleteFromCells(map, entity, KeysLeft(entity, oldX, oldY)),
               entity, KeysEntered(entity, oldX, oldY))

\* the order in which a Set is iterated (its insertion order, which the
\* model does not keep: some fixed order)
RECURSIVE IterationOrder(_)
IterationOrder(set) ==
    IF set = {} THEN <<>>
    ELSE LET x == CHOOSE x \in set : TRUE
         IN <<x>> \o IterationOrder(set \ {x})

\* an array push in place of the Set.add
ArrayPush(candidates, other) == Append(candidates, other)

\* candidates.add(other): a Set keeps one entry per member, in the order
\* of the first add
SetAdd(candidates, other) ==
    IF other \in Range(candidates) THEN candidates ELSE Append(candidates, other)

\* the inner loop of getPotentialCollisions over the members of one cell
RECURSIVE AddOthers(_, _, _, _)
AddOthers(entity, members, i, candidates) ==
    IF i > Len(members) THEN candidates
    ELSE AddOthers(entity, members, i + 1,
                   IF members[i] # entity
                   THEN SetAdd(candidates, members[i])
                   ELSE candidates)

\* the loop of getPotentialCollisions over the keys from index i on
RECURSIVE Candidates(_, _, _, _)
Candidates(entity, keys, i, candidates) ==
    IF i > Len(keys) THEN candidates
    ELSE Candidates(entity, keys, i + 1,
                    IF keys[i] \in DOMAIN cells
                    THEN AddOthers(entity, IterationOrder(cells[keys[i]]), 1,
                                   candidates)
                    ELSE candidates)

\* SpatialGrid.getPotentialCollisions: Array.from(candidates)
getPotentialCollisions(entity) ==
    Candidates(entity, getCellsForEntity(entity), 1, <<>>)

\* SpatialGrid.getCellCount
getCellCount == Cardinality(DOMAIN cells)

\* what the calls so far have told the grid about an entity: nothing, its
\* position at the last insertEntity or updateEntity, or calls that did not
\* follow its moves (an update with other old coordinates than those the
\* grid was given, an insert or remove after an unreported move)
NotIndexed == [status |-> "out", at |-> <<>>]
IndexedAt(p) == [status |-> "in", at |-> p]
Misused == [status |-> "misused", at |-> <<>>]

GridInit ==
    /\ cells = <<>>
    /\ position = [e \in GridEntities |-> StartPosition]
    /\ indexed = [e \in GridEntities |-> NotIndexed]

\* SpatialGrid.insertEntity
InsertEntity(entity) ==
    /\ cells' = AddToCells(cells, entity, Range(getCellsForEntity(entity)))
    /\ indexed' = [indexed EXCEPT ![entity] =
                      IF @ = NotIndexed \/ @ = IndexedAt(position[entity])
                      THEN IndexedAt(position[entity])
                      ELSE Misused]
    /\ UNCHANGED position
    /\ UNCHANGED nonGridVars

\* SpatialGrid.removeEntity
RemoveEntity(entity) ==
    /\ cells' = DeleteFromCells(cells, entity, Range(getCellsForEntity(entity)))
    /\ indexed' = [indexed EXCEPT ![entity] =
                      IF @ = NotIndexed \/ @ = IndexedAt(position[entity])
                      THEN NotIndexed
                      ELSE Misused]
    /\ UNCHANGED position
    /\ UNCHANGED nonGridVars

\* SpatialGrid.updateEntity
UpdateEntity(entity, oldX, oldY) ==
    /\ cells' = UpdateCells(cells, entity, oldX, oldY)
    /\ indexed' = [indexed EXCEPT ![entity] =
                      IF @ = IndexedAt(<<oldX, oldY>>)
                      THEN IndexedAt(position[entity])
                      ELSE Misused]
    /\ UNCHANGED position
    /\ UNCHANGED nonGridVars

\* SpatialGrid.clear
GridClear ==
    /\ cells' = <<>>
    /\ indexed' = [e \in GridEntities |-> NotIndexed]
    /\ UNCHANGED position
    /\ UNCHANGED nonGridVars

\* a caller moves its entity; the grid is not told
MoveEntity(entity, p) ==
    /\ p # position[entity]
    /\ position' = [position EXCEPT ![entity] = p]
    /\ UNCHANGED <<cells, indexed>>
    /\ UNCHANGED nonGridVars

GridNext ==
    \/ \E e \in GridEntities : InsertEntity(e)
    \/ \E e \in GridEntities : RemoveEntity(e)
    \/ \E e \in GridEntities, old \in Positions : UpdateEntity(e, old[1], old[2])
    \/ GridClear
    \/ \E e \in GridEntities, p \in Positions : MoveEntity(e, p)

\* ---------------------------------------------------------------------
\* StateManager (src/src/state/GameState.ts)
\* ---------------------------------------------------------------------

\* enum GameStateType
LOADING == "LOADING"
MENU == "MENU"
PLAYING == "PLAYING"
PAUSED == "PAUSED"
GAME_OVER == "GAME_OVER"
GameStateType == {LOADING, MENU, PLAYING, PAUSED, GAME_OVER}

\* the state change handlers a game registers
StateHandlers == {1, 2}

\* the gameData of the constructor and of resetGame, around a high score
FreshGameData(highScore) ==
    [score |-> 0, level |-> 1, lives |-> 3, highScore |-> highScore,
     isPaused |-> FALSE]

\* the partial updates handed to updateGameData
GameDataUpdates ==
    { [score |-> 100], [lives |-> 2], [isPaused |-> TRUE],
      [score |-> 500, highScore |-> 500], [level |-> 2] }

\* { ...this.gameData, ...updates }
Spread(data, updates) ==
    [f \in DOMAIN data |-> IF f \in DOMAIN updates THEN updates[f] ELSE data[f]]

\* table of transitions in which every state can be left for the menu
validTransitionsMenuFromAnywhere ==
    [s \in GameStateType |->
        CASE s = LOADING -> {MENU}
          [] s = MENU -> {PLAYING, MENU}
          [] s = PLAYING -> {PAUSED, GAME_OVER, MENU}
          [] s = PAUSED -> {PLAYING, MENU}
          [] s = GAME_OVER -> {MENU}]

\* the Map built in isValidStateTransition
validTransitions ==
    [s \in GameStateType |->
        CASE s = LOADING -> {MENU}
          [] s = MENU -> {PLAYING}
          [] s = PLAYING -> {PAUSED, GAME_OVER}
          [] s = PAUSED -> {PLAYING, MENU}
          [] s = GAME_OVER -> {MENU}]

\* StateManager.isValidStateTransition
isValidStateTransition(current, newState) ==
    IF current \in DOMAIN validTransitions
    THEN newState \in validTransitions[current]
    ELSE FALSE

\* StateManager.notifyStateChange: one call per handler in insertion
\* order; what a handler throws is caught and logged
notifyStateChange(handlers, prevState, newState, throwers) ==
    [i \in 1..Len(handlers) |->
        [handler |-> handlers[i], prevState |-> prevState,
         newState |-> newState, threw |-> handlers[i] \in throwers]]

\* StateManager.setState: the state it leaves, the handler calls it made
\* and whether it threw
setState(current, handlers, newState, throwers) ==
    IF ~isValidStateTransition(current, newState)
    THEN [state |-> current, notified |-> <<>>, threw |-> TRUE]
    ELSE [state |-> newState,
          notified |-> notifyStateChange(handlers, current, newState, throwers),
          threw |-> FALSE]

StateInit ==
    /\ currentState = LOADING
    /\ gameData = FreshGameData(0)
    /\ stateChangeHandlers = <<>>
    /\ stateCall = [op |-> "new", arg |-> <<>>, threw |-> FALSE, notified |-> <<>>]

\* StateManager.setState(newState); throwers are the handlers that throw
SetState(newState, throwers) ==
    LET r == setState(currentState, stateChangeHandlers, newState, throwers) IN
    /\ throwers \subseteq (IF r.threw THEN {} ELSE Range(stateChangeHandlers))
    /\ currentState' = r.state
    /\ stateCall' = [op |-> "setState", arg |-> newState, threw |-> r.threw,
                     notified |-> r.notified]
    /\ UNCHANGED <<gameData, stateChangeHandlers>>
    /\ UNCHANGED nonStateVars

\* StateManager.updateGameData
UpdateGameData(updates) ==
    /\ gameData' = Spread(gameData, updates)
    /\ stateCall' = [op |-> "updateGameData", arg |-> updates, threw |-> FALSE,
                     notified |-> <<>>]
    /\ UNCHANGED <<currentState, stateChangeHandlers>>
    /\ UNCHANGED nonStateVars

\* StateManager.addStateChangeHandler
AddStateChangeHandler(handler) ==
    /\ stateChangeHandlers' = SetAdd(stateChangeHandlers, handler)
    /\ stateCall' = [op |-> "addStateChangeHandler", arg |-> handler,
                     threw |-> FALSE, notified |-> <<>>]
    /\ UNCHANGED <<currentState, gameData>>
    /\ UNCHANGED nonStateVars

\* StateManager.removeStateChangeHandler
RemoveStateChangeHandler(handler) ==
    /\ stateChangeHandlers' =
          SelectSeq(stateChangeHandlers, LAMBDA h : h # handler)
    /\ stateCall' = [op |-> "removeStateChangeHandler", arg |-> handler,
                     threw |-> FALSE, notified |-> <<>>]
    /\ UNCHANGED <<currentState, gameData>>
    /\ UNCHANGED nonStateVars

\* StateManager.resetGame: gameData is replaced, then setState(MENU) runs
ResetGame(throwers) ==
    LET r == setState(currentState, stateChangeHandlers, MENU, throwers) IN
    /\ throwers \subseteq (IF r.threw THEN {} ELSE Range(stateChangeHandlers))
    /\ gameData' = FreshGameData(gameData.highScore)
    /\ currentState' = r.state
    /\ stateCall' = [op |-> "resetGame", arg |-> <<>>, threw |-> r.threw,
                     notified |-> r.notified]
    /\ UNCHANGED stateChangeHandlers
    /\ UNCHANGED nonStateVars

StateNext ==
    \/ \E s \in GameStateType, throwers \in SUBSET StateHandlers :
          SetState(s, throwers)
    \/ \E u \in GameDataUpdates : UpdateGameData(u)
    \/ \E h \in StateHandlers : AddStateChangeHandler(h)
    \/ \E h \in StateHandlers : RemoveStateChangeHandler(h)
    \/ \E throwers \in SUBSET StateHandlers : ResetGame(throwers)

\* ---------------------------------------------------------------------
\* ShootingSystem (src/src/systems/ShootingSystem.ts)
\* ---------------------------------------------------------------------

\* config.cooldownTime, in ms
cooldownTime == 250

\* config.maxProjectiles: the size of the system's pool
maxProjectiles == 2

MaxShootCalls == 4

\* ids of the entities that shoot
ShooterIds == {1, 2}

\* time between the currentTime of one shoot call and that of the next
ShootGaps == {0, 100, 250}

\* the entity has not shot
NoShot == [t |-> -1, reset |-> FALSE]

\* this.lastShotTime.get(entityId) || 0
LastShot(map, entityId) ==
    IF entityId \in DOMAIN map /\ map[entityId] # 0 THEN map[entityId] ELSE 0

\* cooldown test that lets every shot through
canShootAlways(map, entityId, currentTime) == TRUE

\* ShootingSystem.canShoot
canShoot(map, entityId, currentTime) ==
    currentTime - LastShot(map, entityId) >= cooldownTime

\* this.projectilePool.acquire(): a projectile unless the pool is exhausted
PoolHasFree(active) == active < maxProjectiles

\* shoot reaches lastShotTime.set only past both early returns
RecordsShot(allowed, obtained) == allowed /\ obtained

\* ShootingSystem.shoot: what it returns and the map it leaves
shoot(map, active, entityId, currentTime) ==
    LET allowed == canShoot(map, entityId, currentTime)
        obtained == allowed /\ PoolHasFree(active)
    IN [ret |-> obtained,
        refusedBy |-> IF ~allowed THEN "cooldown"
                      ELSE IF ~obtained THEN "pool" ELSE "",
        map |-> IF RecordsShot(allowed, obtained)
                THEN (entityId :> currentTime) @@ map
                ELSE map,
        active |-> IF obtained THEN active + 1 ELSE active]

ShootInit ==
    /\ lastShotTime = <<>>
    /\ shootActive = 0
    /\ shootTime = 0
    /\ shootCalls = 0
    /\ shootCall = [op |-> "new", entity |-> 0, t |-> 0, ret |-> FALSE,
                    refusedBy |-> "", previous |-> NoShot]
    /\ shotHistory = [e \in ShooterIds |-> NoShot]

\* ShootingSystem.shoot(entity, currentTime), currentTime being gap ms
\* after the time of the call before
Shoot(entityId, gap) ==
    LET currentTime == shootTime + gap
        r == shoot(lastShotTime, shootActive, entityId, currentTime)
    IN
    /\ shootCalls < MaxShootCalls
    /\ shootCalls' = shootCalls + 1
    /\ shootTime' = currentTime
    /\ lastShotTime' = r.map
    /\ shootActive' = r.active
    /\ shootCall' = [op |-> "shoot", entity |-> entityId, t |-> currentTime,
                     ret |-> r.ret, refusedBy |-> r.refusedBy,
                     previous |-> shotHistory[entityId]]
    /\ shotHistory' = IF r.ret
                      THEN [shotHistory EXCEPT
                               ![entityId] = [t |-> currentTime, reset |-> FALSE]]
                      ELSE shotHistory
    /\ UNCHANGED nonShootVars

\* ShootingSystem.update: released of the projectiles in use have left the
\* screen and go back to the pool
ShootUpdate(released) ==
    /\ released \in 1..shootActive
    /\ shootActive' = shootActive - released
    /\ shootCall' = [op |-> "update", entity |-> 0, t |-> 0, ret |-> FALSE,
                     refusedBy |-> "", previous |-> NoShot]
    /\ UNCHANGED <<lastShotTime, shootTime, shootCalls, shotHistory>>
    /\ UNCHANGED nonShootVars

\* ShootingSystem.reset
ShootReset ==
    /\ shootActive' = 0
    /\ lastShotTime' = <<>>
    /\ shootCall' = [op |-> "reset", entity |-> 0, t |-> 0, ret |-> FALSE,
                     refusedBy |-> "", previous |-> NoShot]
    /\ shotHistory' = [e \in ShooterIds |->
                          IF shotHistory[e] = NoShot THEN NoShot
                          ELSE [shotHistory[e] EXCEPT !.reset = TRUE]]
    /\ UNCHANGED <<shootTime, shootCalls>>
    /\ UNCHANGED nonShootVars

ShootNext ==
    \/ \E e \in ShooterIds, gap \in ShootGaps : Shoot(e, gap)
    \/ \E k \in 1..maxProjectiles : ShootUpdate(k)
    \/ ShootReset

\* ---------------------------------------------------------------------
\* KeyboardInput (src/unnamed/part_006)
\* ---------------------------------------------------------------------

\* event.code of the keys the player uses
KeyCodes == {"Space", "ArrowLeft"}

\* this.keyStates.get(code) || { isPressed: false, wasPressed: false }
KeyStateOrUp(map, code) ==
    IF code \in DOMAIN map THEN map[code]
    ELSE [isPressed |-> FALSE, wasPressed |-> FALSE]

\* the keyStates.set of handleKeyDown
KeyDownState(map, code) ==
    (code :> [isPressed |-> TRUE,
              wasPressed |-> KeyStateOrUp(map, code).isPressed]) @@ map

\* the keyStates.set of handleKeyUp
KeyUpState(map, code) ==
    (code :> [isPressed |-> FALSE,
              wasPressed |-> KeyStateOrUp(map, code).isPressed]) @@ map

\* KeyboardInput.isKeyPressed
isKeyPressed(keyCode) ==
    IF keyCode \in DOMAIN keyStates THEN keyStates[keyCode].isPressed ELSE FALSE

\* KeyboardInput.isKeyJustPressed
isKeyJustPressed(keyCode) ==
    IF keyCode \in DOMAIN keyStates
    THEN keyStates[keyCode].isPressed /\ ~keyStates[keyCode].wasPressed
    ELSE FALSE

\* the loop of KeyboardInput.update
UpdatedKeyStates(map) ==
    [k \in DOMAIN map |->
        [isPressed |-> map[k].isPressed, wasPressed |-> map[k].isPressed]]

\* this.keyStates.clear()
NoKeys == [k \in {} |-> FALSE]

NoneSinceDown == [k \in KeyCodes |-> 0]

KeyInit ==
    /\ keyStates = NoKeys
    /\ enabled = FALSE
    /\ keyCall = [op |-> "new", code |-> ""]
    /\ sinceDown = NoneSinceDown

\* the host delivers a keydown event: KeyboardInput.handleKeyDown
KeyDown(code) ==
    /\ keyCall' = [op |-> "keydown", code |-> code]
    /\ IF ~enabled
       THEN UNCHANGED <<keyStates, sinceDown>>
       ELSE /\ keyStates' = KeyDownState(keyStates, code)
            /\ sinceDown' =
                  [sinceDown EXCEPT ![code] =
                      IF ~isKeyPressed(code) THEN 1
                      ELSE IF @ = 0 THEN 0 ELSE 2]
    /\ UNCHANGED enabled
    /\ UNCHANGED nonKeyVars

\* the host delivers a keyup event: KeyboardInput.handleKeyUp
KeyUp(code) ==
    /\ keyCall' = [op |-> "keyup", code |-> code]
    /\ IF ~enabled
       THEN UNCHANGED <<keyStates, sinceDown>>
       ELSE /\ keyStates' = KeyUpState(keyStates, code)
            /\ sinceDown' = [sinceDown EXCEPT ![code] = IF @ = 0 THEN 0 ELSE 2]
    /\ UNCHANGED enabled
    /\ UNCHANGED nonKeyVars

\* the window loses focus: KeyboardInput.handleBlur
Blur ==
    /\ keyStates' = NoKeys
    /\ keyCall' = [op |-> "blur", code |-> ""]
    /\ sinceDown' = NoneSinceDown
    /\ UNCHANGED enabled
    /\ UNCHANGED nonKeyVars

\* KeyboardInput.update
KeyUpdate ==
    /\ keyStates' = UpdatedKeyStates(keyStates)
    /\ keyCall' = [op |-> "update", code |-> ""]
    /\ sinceDown' = NoneSinceDown
    /\ UNCHANGED enabled
    /\ UNCHANGED nonKeyVars

\* KeyboardInput.enable
Enable ==
    /\ enabled' = TRUE
    /\ keyCall' = [op |-> "enable", code |-> ""]
    /\ UNCHANGED <<keyStates, sinceDown>>
    /\ UNCHANGED nonKeyVars

\* KeyboardInput.disable
Disable ==
    /\ enabled' = FALSE
    /\ keyStates' = NoKeys
    /\ keyCall' = [op |-> "disable", code |-> ""]
    /\ sinceDown' = NoneSinceDown
    /\ UNCHANGED nonKeyVars

KeyNext ==
    \/ \E code \in KeyCodes : KeyDown(code)
    \/ \E code \in KeyCodes : KeyUp(code)
    \/ Blur
    \/ KeyUpdate
    \/ Enable
    \/ Disable

PoolInit ==
    /\ pool = InitialPool
    /\ activeProjectiles = {}
    /\ lastCall = [op |-> "new", arg |-> Null, ret |-> Null, threw |-> FALSE]

Init == PoolInit /\ LoopInit /\ CollisionInit /\ GridInit /\ StateInit
        /\ ShootInit /\ KeyInit

PoolNext ==
    \/ \E x \in AcquireXs, y \in AcquireYs, d \in Directions : Acquire(x, y, d)
    \/ \E p \in {Foreign} \cup (1..Len(pool)) : Release(p)
    \/ \E dt \in DeltaTimes : Update(dt)
    \/ Clear

PoolSpec == Init /\ [][PoolNext]_vars

PoolHolderNext ==
    \/ PoolNext
    \/ \E p \in 1..Len(pool) : HolderDeactivate(p)

PoolHolderSpec == Init /\ [][PoolHolderNext]_vars

\* the update calls that may throw: any system in one of the first passes
ThrowPasses == {1, 2}
ThrowPoints ==
    {<<0, 0>>} \cup (ThrowPasses \X (1..Len(systems)))

LoopNext ==
    \/ \E s \in SystemIds : AddSystem(s)
    \/ Start
    \/ Stop
    \/ \E d \in FrameDeltas \cup (IF fromStart THEN {EarlyDelta} ELSE {}),
          throwAt \in ThrowPoints, renderThrow \in 0..Len(systems) :
            Frame(d, throwAt, renderThrow)

LoopSpec == Init /\ [][LoopNext]_vars

\* the passes in which a system may call stop()
StopPasses == {1, 2}

\* the loop with systems that may stop it from inside their update and
\* that do not throw
LoopStopNext ==
    \/ \E s \in SystemIds : AddSystem(s)
    \/ Start
    \/ Stop
    \/ \E d \in FrameDeltas \cup (IF fromStart THEN {EarlyDelta} ELSE {}) :
          Frame(d, <<0, 0>>, 0)
    \/ \E d \in FrameDeltas, stopPass \in StopPasses :
          FrameStopping(d, <<0, 0>>, 0, stopPass)

LoopStopSpec == Init /\ [][LoopStopNext]_vars

\* the same loop, followed up to the first call of start() that finds it
\* running; that call is noted
LoopTracedNext ==
    \/ ~startedWhileRunning /\ \E s \in SystemIds : AddSystem(s)
    \/ StartTraced
    \/ ~startedWhileRunning /\ Stop
    \/ /\ ~startedWhileRunning
       /\ \E d \in FrameDeltas \cup (IF fromStart THEN {EarlyDelta} ELSE {}),
             throwAt \in ThrowPoints, renderThrow \in 0..Len(systems) :
               Frame(d, throwAt, renderThrow)

LoopTracedSpec == Init /\ [][LoopTracedNext]_vars

CollisionSpec == Init /\ [][CollisionNext]_vars

\* the collision system of a game whose handlers deactivate what was hit:
\* three entities, one callback, no handler that throws
CollisionHandlerNext ==
    \/ \E entity \in {o \in Collidables : o.ref \in 1..3} : RegisterEntity(entity)
    \/ \E entityId \in {"b"} : UnregisterEntity(entityId)
    \/ \E t \in HandlerTypes : RegisterCollisionHandler(t[1], t[2], "h1")
    \/ \E active \in ActiveAnswers, box \in BoxAnswers :
          CollisionUpdate(active, box, 0)
    \/ \E active \in ActiveAnswers, box \in BoxAnswers,
          at \in {1, 2}, side \in {1, 2} :
            CollisionUpdateDeactivating(active, box, at, side)
    \/ CollisionClear

CollisionHandlerSpec == Init /\ [][CollisionHandlerNext]_vars

GridSpec == Init /\ [][GridNext]_vars

StateSpec == Init /\ [][StateNext]_vars

ShootSpec == Init /\ [][ShootNext]_vars

KeySpec == Init /\ [][KeyNext]_vars

(***************************************************************************)
(* ProjectilePool: properties                                              *)
(***************************************************************************)

\* C1: in every state reachable by acquire, release, update and clear calls
\* (and by holders deactivating projectiles), getActiveCount() <= maxSize.
C1_ActiveCountBounded == getActiveCount <= maxSize

\* the pool has just been filled by a successful acquire
C1_Witness ==
    /\ lastCall.op = "acquire"
    /\ lastCall.ret # Null
    /\ getActiveCount = maxSize

C3_ReleaseUntrackedIsNoOp ==
    [][(lastCall'.op = "release" /\ lastCall'.arg \notin activeProjectiles)
        => /\ ~lastCall'.threw
           /\ Cardinality(activeProjectiles') = getActiveCount
           /\ Len(pool') = Len(pool)
           /\ \A i \in 1..Len(pool) : pool'[i].active = pool[i].active]_vars

\* a slot of the pool that is not tracked has just been released again
\* while another projectile is in flight
C3_Witness ==
    /\ lastCall.op = "release"
    /\ lastCall.arg \in 1..Len(pool)
    /\ lastCall.arg \notin activeProjectiles
    /\ ~pool[lastCall.arg].active
    /\ pool[lastCall.arg].x # NewProjectile.x
    /\ getActiveCount > 0

PassesStarted == frame.passes + (IF frame.updateThrew THEN 1 ELSE 0)

\* position of system s in the systems array
PosOf(sys, s) == CHOOSE i \in 1..Len(sys) : sys[i] = s

\* C5: at the exit of the drain loop of every frame that no update error
\* aborted, 0 <= accumulator < updateInterval, whatever timestamps arrive.
C5_AccumulatorInRange ==
    (frame.ran /\ ~frame.updateThrew)
        => (0 <= accumulator /\ accumulator < updateInterval)

\* C6: every update(dt) call of the loop passes dt = updateInterval / 1000,
\* never the raw or the capped frame delta.
C6_FixedStep ==
    \A i \in 1..Len(calls) :
        calls[i].op = "update" => calls[i].dt * 1000 = updateInterval

\* a frame whose capped delta differs from updateInterval ran two passes
C6_Witness ==
    /\ frame.ran
    /\ frame.added # updateInterval
    /\ frame.raw # frame.added
    /\ frame.passes >= 2
    /\ \E i \in 1..Len(calls) : calls[i].op = "update" /\ calls[i].pass = 2

\* C7: for a loop started once with accumulator 0 and no system throwing,
\* the update passes performed so far number floor(S / updateInterval),
\* S being the sum of the capped frame deltas.
C7_PassCount ==
    (starts = 1 /\ ~everThrew /\ frame.ran)
        => updatePasses = cappedSum \div updateInterval

\* frames 50 ms apart
BurstDelta == 50 * Scale

\* C8 as stated: a frame 50 ms after the previous one adds exactly 33.3 ms
\* and runs at most 2 update passes, in any reachable loop state.
C8_BurstAtMostTwoPasses ==
    (frame.ran /\ frame.raw = BurstDelta)
        => (frame.added = maxFrameTime /\ PassesStarted <= 2)

\* C8 amended: a frame 50 ms after the previous one adds exactly 33.3 ms, and
\* runs at most 2 update passes when the accumulator was below updateInterval
\* as the callback fired; a restart after an update error carries the failed
\* step's time over, and then the frame runs as many passes as the
\* accumulator holds.
C8_BurstCapped ==
    (frame.ran /\ frame.raw = BurstDelta)
        => /\ frame.added = maxFrameTime
           /\ frame.accBefore < updateInterval => PassesStarted <= 2

\* a 50 ms frame that found time left in the accumulator ran two passes
C8_Witness ==
    /\ frame.ran
    /\ frame.raw = BurstDelta
    /\ frame.accBefore > 0
    /\ frame.accBefore < updateInterval
    /\ frame.added = maxFrameTime
    /\ frame.passes = 2

\* C9: when an update or a render throws, the loop stops: isRunning becomes
\* false, the callback requests no next frame, no render follows a failed
\* update in that frame, and while isRunning stays false (no start()) no
\* update and no render is called.
C9_FailStop ==
    [][/\ (frames' # frames /\ frame'.ran
            /\ (frame'.updateThrew \/ frame'.renderThrew))
          => /\ ~isRunning'
             /\ pending' = pending - 1
             /\ ~frame'.rescheduled
             /\ calls'[Len(calls')].threw
             /\ frame'.updateThrew
                  => \A i \in 1..Len(calls') : calls'[i].op # "render"
       /\ (frames' # frames /\ ~isRunning)
          => (calls' = <<>> /\ ~frame'.ran /\ ~isRunning')
       /\ frames' = frames => calls' = calls]_vars

\* an update threw in a loop that has a renderer, and the loop is stopped
C9_Witness ==
    /\ frame.ran
    /\ frame.updateThrew
    /\ ~isRunning
    /\ \E i \in 1..Len(systems) : HasRender(systems[i])
    /\ Len(calls) >= 1

\* the calls of a frame are ordered: updates before renders, passes in
\* sequence, and within a pass and within the render pass the systems in
\* the order of the systems array; a frame that renders has completed
\* every pass over every system
OrderedCalls(log, sys, passes) ==
    /\ \A i, j \in 1..Len(log) :
         i < j =>
            /\ log[i].op = "render" => log[j].op = "render"
            /\ (log[i].op = "update" /\ log[j].op = "update")
                  => /\ log[i].pass <= log[j].pass
                     /\ log[i].pass = log[j].pass
                          => PosOf(sys, log[i].sys) < PosOf(sys, log[j].sys)
            /\ (log[i].op = "render" /\ log[j].op = "render")
                  => PosOf(sys, log[i].sys) < PosOf(sys, log[j].sys)
    /\ (\E i \in 1..Len(log) : log[i].op = "render")
         => \A p \in 1..passes, k \in 1..Len(sys) :
               \E i \in 1..Len(log) :
                  /\ log[i].op = "update"
                  /\ log[i].pass = p
                  /\ log[i].sys = sys[k]
                  /\ ~log[i].threw

\* C10: within one frame callback every update pass completes before render
\* is called, and within each update pass and within the render pass the
\* systems are called in the order they were added.
C10_UpdateBeforeRenderInOrder ==
    [][frames' # frames => OrderedCalls(calls', systems, frame'.passes)]_vars

\* a frame ran two passes over two systems and rendered two systems
C10_Witness ==
    /\ frame.ran
    /\ frame.passes = 2
    /\ Len(systems) >= 2
    /\ Cardinality({i \in 1..Len(calls) : calls[i].op = "update"}) >= 4
    /\ Cardinality({i \in 1..Len(calls) : calls[i].op = "render"}) >= 2

\* C11: start() on a running loop is a no-op: it requests no further frame
\* callback and leaves lastFrameTime, fpsTimer, accumulator and isRunning
\* as they were.
C11_StartWhileRunningNoOp ==
    [][(~startedWhileRunning /\ startedWhileRunning')
        => /\ pending' = pending
           /\ lastFrameTime' = lastFrameTime
           /\ fpsTimer' = fpsTimer
           /\ accumulator' = accumulator
           /\ isRunning' = isRunning
           /\ isRunning]_vars

\* start() was called on a loop that had processed a frame and still ran
C11_Witness ==
    /\ startedWhileRunning
    /\ isRunning
    /\ frame.ran
    /\ pending = 1
    /\ lastFrameTime > fpsTimer

\* C12: a frame callback that fires while isRunning is false returns at once:
\* no update, no render, no further frame requested, and accumulator,
\* lastFrameTime, frameCount and currentFPS unchanged.
C12_StoppedCallbackReturns ==
    [][(frames' # frames /\ ~isRunning)
        => /\ calls' = <<>>
           /\ ~frame'.ran
           /\ pending' = pending - 1
           /\ accumulator' = accumulator
           /\ lastFrameTime' = lastFrameTime
           /\ frameCount' = frameCount
           /\ currentFPS' = currentFPS
           /\ fpsTimer' = fpsTimer]_vars

\* after a frame that ran, stop() was called and the pending callback fired
C12_Witness ==
    /\ ~isRunning
    /\ ~frame.ran
    /\ frames = 2
    /\ pending = 0
    /\ frameCount > 0
    /\ accumulator > 0
    /\ ~everThrew

\* ---------------------------------------------------------------------
\* CollisionSystem claims
\* ---------------------------------------------------------------------

Max(a, b) == IF a > b THEN a ELSE b

\* the boxes share a region of positive width and positive height
PositiveOverlap(b1, b2) ==
    /\ Min(b1.x + b1.width, b2.x + b2.width) > Max(b1.x, b2.x)
    /\ Min(b1.y + b1.height, b2.y + b2.height) > Max(b1.y, b2.y)

\* the boxes meet in an edge or a corner only
Touching(b1, b2) ==
    /\ ~PositiveOverlap(b1, b2)
    /\ Min(b1.x + b1.width, b2.x + b2.width) >= Max(b1.x, b2.x)
    /\ Min(b1.y + b1.height, b2.y + b2.height) >= Max(b1.y, b2.y)

\* a handler is registered under one of the two orders of the type pair
HandlerRegisteredFor(e, f) ==
    \/ getCollisionKey(e.type, f.type) \in DOMAIN collisionHandlers
    \/ getCollisionKey(f.type, e.type) \in DOMAIN collisionHandlers

Updated == collisionCall.op = "update"
Tick == collisionCall.tick

\* the handler invocations of the last tick made for the pair {e, f}
Invocations(e, f) ==
    {k \in 1..Len(Tick.log) :
        {Tick.log[k].entity1, Tick.log[k].entity2} = {e, f}}

\* the pairs of the tick a handler is owed to: registered, active when the
\* tick began, overlapping, of types with a handler
OwedPairs ==
    {p \in Range(entities) \X Range(entities) :
        /\ p[1] # p[2]
        /\ Tick.active[p[1]] /\ Tick.active[p[2]]
        /\ PositiveOverlap(Tick.box[p[1]], Tick.box[p[2]])
        /\ HandlerRegisteredFor(p[1], p[2])}

\* C13: in one update(), every pair of distinct registered active entities
\* with overlapping boxes and a handler for its types gets exactly one handler
\* invocation, in whichever order the two were registered; no pair that does
\* not overlap gets one.
C13_EachOverlappingPairOnce ==
    Updated =>
        /\ \A p \in OwedPairs : Cardinality(Invocations(p[1], p[2])) = 1
        /\ \A k \in 1..Len(Tick.log) :
              PositiveOverlap(Tick.box[Tick.log[k].entity1],
                              Tick.box[Tick.log[k].entity2])

\* C14: the handler lookup is symmetric and deterministic: a handler
\* registered for (tA, tB) alone serves a pair scanned as (tA, tB) or as
\* (tB, tA); with handlers under both orders, the one keyed by the types of
\* (first scanned, second scanned) is invoked and the other is not.
C14_HandlerLookup ==
    Updated =>
        /\ \A k \in 1..Len(Tick.log) :
              LET e == Tick.log[k]
                  key1 == getCollisionKey(e.entity1.type, e.entity2.type)
                  key2 == getCollisionKey(e.entity2.type, e.entity1.type)
              IN IF key1 \in DOMAIN collisionHandlers
                 THEN e.handler = collisionHandlers[key1]
                 ELSE /\ key2 \in DOMAIN collisionHandlers
                      /\ e.handler = collisionHandlers[key2]
        /\ ~collisionCall.threw =>
              \A p \in OwedPairs : Invocations(p[1], p[2]) # {}

\* two handlers under the two orders of one type pair; the pair was scanned
\* enemy first and got the handler keyed enemy:player
C14_Witness ==
    /\ Updated
    /\ "player:enemy" \in DOMAIN collisionHandlers
    /\ "enemy:player" \in DOMAIN collisionHandlers
    /\ collisionHandlers["player:enemy"] # collisionHandlers["enemy:player"]
    /\ \E k \in 1..Len(Tick.log) :
          /\ Tick.log[k].entity1.type = ENEMY
          /\ Tick.log[k].entity2.type = PLAYER
          /\ Tick.log[k].handler = collisionHandlers["enemy:player"]

\* the single registration player:enemy serves a pair scanned enemy first
C14_WitnessFallback ==
    /\ Updated
    /\ DOMAIN collisionHandlers = {"player:enemy"}
    /\ \E k \in 1..Len(Tick.log) :
          /\ Tick.log[k].entity1.type = ENEMY
          /\ Tick.log[k].entity2.type = PLAYER

\* C15: the overlap test is strict on both axes: boxes that only touch at an
\* edge or a corner, such as [0,0,32,32] and [32,0,32,32], never get a
\* handler invocation.
C15_TouchingNeverCollides ==
    /\ ~checkCollision(BoundingBox(0, 0), BoundingBox(32, 0))
    /\ ~checkCollision(BoundingBox(0, 0), BoundingBox(32, 32))
    /\ Updated =>
          \A e \in Range(entities), f \in Range(entities) :
              Touching(Tick.box[e], Tick.box[f]) => Invocations(e, f) = {}

\* a tick over two active entities at [0,0,32,32] and [32,0,32,32] whose
\* types have a handler, and another pair that did collide
C15_Witness ==
    /\ Updated
    /\ ~collisionCall.threw
    /\ Len(Tick.log) > 0
    /\ \E e \in Range(entities), f \in Range(entities) :
          /\ Tick.active[e] /\ Tick.active[f]
          /\ Tick.box[e] = BoundingBox(0, 0)
          /\ Tick.box[f] = BoundingBox(32, 0)
          /\ HandlerRegisteredFor(e, f)

\* C16: a handler that throws during update() is isolated to its pair: every
\* other overlapping pair of the tick still gets its handler and update()
\* returns normally.
C16_HandlerFailureIsolated ==
    Updated =>
        /\ ~collisionCall.threw
        /\ \A p \in OwedPairs : Invocations(p[1], p[2]) # {}

\* C17: an entity that is inactive when update() starts takes part in no
\* collision of that tick.
C17_InactiveTakesNoPart ==
    Updated =>
        \A o \in Range(entities) :
            ~Tick.active[o] =>
                \A k \in 1..Len(Tick.log) :
                    Tick.log[k].entity1 # o /\ Tick.log[k].entity2 # o

\* an inactive entity overlapped an active one of a type with a handler,
\* while the tick did report another collision
C17_Witness ==
    /\ Updated
    /\ Len(Tick.log) > 0
    /\ \E o \in Range(entities), p \in Range(entities) :
          /\ ~Tick.active[o]
          /\ Tick.active[p]
          /\ PositiveOverlap(Tick.box[o], Tick.box[p])
          /\ HandlerRegisteredFor(o, p)

\* C18: registerEntity with an id already registered replaces the mapping
\* and leaves getEntityCount() unchanged, and the replaced entity takes part
\* in no later tick; unregisterEntity with an unknown id does not throw and
\* leaves the registry unchanged.
C18_ReRegisterAndUnknownUnregister ==
    /\ (collisionCall.op = "registerEntity"
        /\ KeyIndex(collisionCall.before, collisionCall.arg.id) # 0) =>
          /\ ~collisionCall.threw
          /\ getEntityCount = Len(collisionCall.before)
          /\ \A i \in 1..Len(entities) :
                entities[i] = IF collisionCall.before[i].id = collisionCall.arg.id
                              THEN collisionCall.arg
                              ELSE collisionCall.before[i]
    /\ (collisionCall.op = "unregisterEntity"
        /\ KeyIndex(collisionCall.before, collisionCall.arg) = 0) =>
          /\ ~collisionCall.threw
          /\ entities = collisionCall.before
    /\ Updated =>
          \A k \in 1..Len(Tick.log) :
              /\ Tick.log[k].entity1 \in Range(entities)
              /\ Tick.log[k].entity2 \in Range(entities)

\* the enemy with id "a" was registered over the player with id "a", beside
\* another entity
C18_Witness ==
    /\ collisionCall.op = "registerEntity"
    /\ collisionCall.arg.ref = 4
    /\ Len(collisionCall.before) = 2
    /\ \E i \in 1..2 : collisionCall.before[i].ref = 1
    /\ \E i \in 1..2 : entities[i].ref = 4

\* an unknown id was unregistered from a registry that holds entities
C18_WitnessUnknown ==
    /\ collisionCall.op = "unregisterEntity"
    /\ collisionCall.arg = "zz"
    /\ Len(entities) = 2

\* C19: registerEntity with a missing or empty id is a non-fatal no-op: it
\* does not throw and leaves the registry unchanged.
C19_MissingIdIsNoOp ==
    (collisionCall.op = "registerEntity" /\ Falsy(collisionCall.arg.id)) =>
        /\ ~collisionCall.threw
        /\ entities = collisionCall.before

\* a tick in which no handler throws gives every owed pair its one invocation
CollisionScanComplete ==
    (Updated /\ ~collisionCall.threw) =>
        \A p \in OwedPairs : Cardinality(Invocations(p[1], p[2])) = 1

\* registerEntity with a missing or empty id leaves the registry unchanged
RejectedRegistrationKeepsRegistry ==
    (collisionCall.op = "registerEntity" /\ Falsy(collisionCall.arg.id)) =>
        entities = collisionCall.before

\* ---------------------------------------------------------------------
\* SpatialGrid claims
\* ---------------------------------------------------------------------

\* the AABB of an entity where it is now
EntityBox(e) ==
    [x |-> position[e][1], y |-> position[e][2],
     width |-> e.width, height |-> e.height]

\* the entity was inserted and every move since was reported by updateEntity
InGridAtCurrentPosition(e) == indexed[e] = IndexedAt(position[e])

\* C20: two entities that are in the grid at their current positions
\* (inserted, and reconciled by updateEntity after each move) and whose AABBs
\* strictly overlap are candidates of one another: B is in
\* getPotentialCollisions(A).
C20_NoFalseNegatives ==
    \A a \in GridEntities, b \in GridEntities :
        (/\ a # b
         /\ InGridAtCurrentPosition(a)
         /\ InGridAtCurrentPosition(b)
         /\ PositiveOverlap(EntityBox(a), EntityBox(b)))
        => b \in Range(getPotentialCollisions(a))

\* two overlapping entities whose top-left corners lie in different cells,
\* both in the grid where they are now, each the only candidate of the other
C20_Witness ==
    \E a \in GridEntities, b \in GridEntities :
        /\ position[a] = <<90, 0>>
        /\ position[b] = <<110, 0>>
        /\ InGridAtCurrentPosition(a)
        /\ InGridAtCurrentPosition(b)
        /\ PositiveOverlap(EntityBox(a), EntityBox(b))
        /\ getPotentialCollisions(a) = <<b>>
        /\ getCellCount = 2

\* an entity reaching left of the origin is held by the cell of column -1
NegativeColumnCell ==
    /\ GridCoordinate(-10) = -1
    /\ "-1,0" \in DOMAIN cells
    /\ \E e \in GridEntities :
          /\ position[e] = <<-10, 0>>
          /\ getCellsForEntity(e) = <<"-1,0", "0,0">>

\* the members of a cell, none if the map has no such cell
Members(map, key) == IF key \in DOMAIN map THEN map[key] ELSE {}

\* the grid columns and rows the placed entities can reach
GridColumns == -2 .. 2

\* the cell (cx, cy) covers [cx * cellSize, (cx + 1) * cellSize) on both
\* axes; the box, edges included, meets it
BoxMeetsCell(box, cx, cy) ==
    /\ box.x < (cx + 1) * cellSize
    /\ box.x + box.width >= cx * cellSize
    /\ box.y < (cy + 1) * cellSize
    /\ box.y + box.height >= cy * cellSize

\* the keys of the cells the AABB of e meets where e is now
SpannedKeys(e) ==
    {CellKey(cx, cy) : <<cx, cy>> \in
        {c \in GridColumns \X GridColumns : BoxMeetsCell(EntityBox(e), c[1], c[2])}}

\* no entity the grid references has made a move the grid was not told of
NoMovePending ==
    \A e \in GridEntities :
        indexed[e].status = "in" => indexed[e].at = position[e]

\* C21: after any sequence of insertEntity, updateEntity and removeEntity
\* calls, with entities moving between the calls, every entity in a cell's
\* set has an AABB that overlaps the bounds of that cell, and the cell map
\* holds no cell with an empty set.
C21_CellsHoldOverlappingEntities ==
    NoMovePending =>
        \A key \in DOMAIN cells :
            /\ cells[key] # {}
            /\ \A e \in cells[key] : key \in SpannedKeys(e)

\* the cell map never holds a cell with an empty set
GridNoEmptyCell == \A key \in DOMAIN cells : cells[key] # {}

\* an entity whose calls followed its moves is referenced from exactly the
\* cells its AABB meets, and one that is not in the grid from none
GridReconciledExact ==
    \A e \in GridEntities :
        /\ InGridAtCurrentPosition(e) =>
              {k \in DOMAIN cells : e \in cells[k]} = SpannedKeys(e)
        /\ indexed[e] = NotIndexed =>
              {k \in DOMAIN cells : e \in cells[k]} = {}

\* C22: after insertEntity(e), e is referenced from every cell (cx, cy) with
\* floor(x/cellSize) <= cx <= floor((x+width)/cellSize) and the same in y,
\* cells that were missing having been created, and the membership of every
\* other entity, and of e in all other cells, is as before.
C22_InsertPostcondition ==
    [][\A e \in GridEntities :
          InsertEntity(e) =>
            LET box == EntityBox(e)
                span == {CellKey(cx, cy) : <<cx, cy>> \in
                           ((box.x \div cellSize) .. ((box.x + box.width) \div cellSize))
                           \X ((box.y \div cellSize) .. ((box.y + box.height) \div cellSize))}
            IN /\ \A k \in span : k \in DOMAIN cells' /\ e \in cells'[k]
               /\ DOMAIN cells' = DOMAIN cells \cup span
               /\ \A k \in DOMAIN cells' :
                     /\ cells'[k] \ {e} = Members(cells, k) \ {e}
                     /\ k \notin span => (e \in cells'[k]) = (e \in Members(cells, k))]_vars

\* an entity spanning four cells was inserted beside another one: two of its
\* cells were created and two already held the other entity
C22_Witness ==
    \E e \in GridEntities, f \in GridEntities :
        /\ e # f
        /\ position[e] = <<90, 90>>
        /\ position[f] = <<90, 0>>
        /\ InGridAtCurrentPosition(e)
        /\ InGridAtCurrentPosition(f)
        /\ getCellCount = 4
        /\ cells["0,0"] = {e, f}
        /\ cells["0,1"] = {e}

\* C23: for an entity inserted at (oldX, oldY) and then moved,
\* updateEntity(e, oldX, oldY) gives the grid that removing e at the old
\* position and inserting it at the new one gives: e ends in exactly the
\* cells its current AABB spans, the cells spanned before and after are
\* neither deleted from nor added to, and cells left empty are pruned.
C23_UpdateIsRemoveThenInsert ==
    [][\A e \in GridEntities, old \in Positions :
          (indexed[e] = IndexedAt(old) /\ UpdateEntity(e, old[1], old[2])) =>
            LET oldKeys == Range(getCellsForEntityAtPosition(e, old[1], old[2]))
                newKeys == Range(getCellsForEntity(e))
            IN /\ cells' = AddToCells(DeleteFromCells(cells, e, oldKeys), e, newKeys)
               /\ {k \in DOMAIN cells' : e \in cells'[k]} = SpannedKeys(e)
               /\ KeysLeft(e, old[1], old[2]) \cap (oldKeys \cap newKeys) = {}
               /\ KeysEntered(e, old[1], old[2]) \cap (oldKeys \cap newKeys) = {}
               /\ \A k \in DOMAIN cells' : cells'[k] # {}]_vars

\* an entity indexed at (60,0), cells 0,0 and 1,0, was moved to (110,0) and
\* reconciled: cell 1,0 was kept and cell 0,0, left empty, was pruned
C23_Witness ==
    \E e \in GridEntities :
        /\ position[e] = <<110, 0>>
        /\ InGridAtCurrentPosition(e)
        /\ DOMAIN cells = {"1,0"}
        /\ cells["1,0"] = {e}

\* C24: getPotentialCollisions(e) returns exactly the other entities that
\* share at least one cell with the current AABB of e: never e itself, and
\* no entity twice, also when e and the other one share several cells.
C24_CandidatesExact ==
    \A e \in GridEntities :
        LET result == getPotentialCollisions(e) IN
        /\ Range(result) =
              {f \in GridEntities \ {e} :
                  \E k \in SpannedKeys(e) : f \in Members(cells, k)}
        /\ e \notin Range(result)
        /\ Len(result) = Cardinality(Range(result))

\* two entities at (90,90) share the four cells around (100,100); each is
\* the one candidate of the other
C24_Witness ==
    /\ getCellCount = 4
    /\ \A k \in DOMAIN cells : cells[k] = GridEntities
    /\ \A e \in GridEntities :
          /\ position[e] = <<90, 90>>
          /\ Len(getPotentialCollisions(e)) = 1
          /\ getPotentialCollisions(e)[1] # e

\* C25: removeEntity(e) removes e from every cell it occupies, so that no
\* cell of the grid references e afterwards, deletes every cell whose set
\* becomes empty, and leaves the memberships of all other entities unchanged.
C25_RemoveLeavesNoReference ==
    [][\A e \in GridEntities :
          RemoveEntity(e) =>
            /\ \A k \in DOMAIN cells' : e \notin cells'[k]
            /\ \A k \in DOMAIN cells' : cells'[k] # {}
            /\ \A k \in DOMAIN cells \cup DOMAIN cells' :
                  Members(cells', k) \ {e} = Members(cells, k) \ {e}]_vars

\* removeEntity(e) on an entity whose calls followed its moves leaves no
\* reference to e; on any entity it prunes and spares the other entities
RemoveWhenReconciled ==
    [][\A e \in GridEntities :
          RemoveEntity(e) =>
            /\ InGridAtCurrentPosition(e) =>
                  \A k \in DOMAIN cells' : e \notin cells'[k]
            /\ \A k \in DOMAIN cells' : cells'[k] # {}
            /\ \A k \in DOMAIN cells \cup DOMAIN cells' :
                  Members(cells', k) \ {e} = Members(cells, k) \ {e}]_vars

\* ---------------------------------------------------------------------
\* ProjectilePool claims: update, bounds, clear
\* ---------------------------------------------------------------------

\* the position is outside the rectangle [0, w] x [0, h]
OutsideRectangle(p, w, h) == p.x < 0 \/ p.x > w \/ p.y < 0 \/ p.y > h

\* where one projectile step of deltaTime ms takes y
AdvancedY(p, deltaTime) == p.y + (MaxSpeed * p.direction * deltaTime) \div 1000

WorldSizes == {<<800, 600>>, <<400, 300>>}

UpdateReleasesOutsideFixedScreen ==
    [][lastCall'.op = "update" =>
          \A p \in activeProjectiles :
              pool[p].active =>
                  ((p \notin activeProjectiles') =
                      OutsideRectangle(pool'[p], 800, 600))]_vars

\* maxSize acquire calls in a row, the first n of them: all return a slot
RECURSIVE AcquiresSucceed(_, _, _)
AcquiresSucceed(slots, active, n) ==
    IF n = 0 THEN TRUE
    ELSE LET r == AcquireResult(slots, active, 400, 300, -1) IN
         /\ r.ret # Null
         /\ AcquiresSucceed(r.pool, r.active, n - 1)

C30_RestartKeepsLoopState ==
    [][/\ (starts' = starts + 1) =>
              /\ isRunning'
              /\ lastFrameTime' = now'
              /\ fpsTimer' = now'
              /\ UNCHANGED <<accumulator, frameCount, currentFPS, systems>>
       /\ (frames' = frames /\ starts' = starts /\ isRunning /\ ~isRunning') =>
              UNCHANGED <<lastFrameTime, fpsTimer, accumulator, frameCount,
                          currentFPS, systems>>
       /\ (frames' = frames + 1 /\ frame'.ran /\ ~frame'.updateThrew) =>
              /\ frame'.passes = DrainPasses(accumulator + frame'.added)
              /\ accumulator' =
                    accumulator + frame'.added - frame'.passes * updateInterval
              /\ accumulator' < updateInterval]_vars

\* a loop that was restarted after an update error stopped it with a whole
\* update interval of debt has run a frame that drained the debt
C30_Witness ==
    /\ starts = 2
    /\ everThrew
    /\ frame.ran
    /\ ~frame.updateThrew
    /\ frame.accBefore >= updateInterval
    /\ frame.passes >= 2
    /\ accumulator < updateInterval


\* the update calls of passes 1..passes over all systems, in order, are the
\* head of the call log and the render pass over all systems is its tail
FullFrameCalls(log, sys, passes) ==
    /\ Len(log) = passes * Len(sys) + Len(RenderCalls(sys, 1, 0))
    /\ \A k \in 1..passes : \A i \in 1..Len(sys) :
          LET c == log[(k - 1) * Len(sys) + i] IN
          c.op = "update" /\ c.pass = k /\ c.sys = sys[i] /\ ~c.threw
    /\ SubSeq(log, passes * Len(sys) + 1, Len(log)) = RenderCalls(sys, 1, 0)

\* C29: stop() is not synchronous: when a system calls stop() from inside
\* its update during a frame, the remaining update passes of the drain
\* loop and the render pass of that frame still run and the next frame is
\* still requested; the stop takes effect only when that next callback
\* fires and returns without work.
C29_StopInsideFrameIsDeferred ==
    [][/\ (frames' = frames + 1 /\ frame'.stopPass # 0) =>
              /\ frame'.ran
              /\ frame'.passes = DrainPasses(accumulator + frame'.added)
              /\ frame'.passes >= frame'.stopPass
              /\ FullFrameCalls(calls', systems, frame'.passes)
              /\ frame'.rescheduled
              /\ pending' = pending
              /\ pending' > 0
              /\ ~isRunning'
       /\ (frames' = frames + 1 /\ ~isRunning) =>
              /\ ~frame'.ran
              /\ calls' = <<>>
              /\ pending' = pending - 1
              /\ UNCHANGED <<isRunning, accumulator, lastFrameTime, frameCount,
                             fpsTimer, currentFPS>>]_vars

\* a system stopped the loop in the first of two update passes of a frame
\* that went on to render, and the next callback is requested
C29_Witness ==
    /\ frame.ran
    /\ frame.stopPass = 1
    /\ frame.passes = 2
    /\ Len(calls) > 2 * Len(systems)
    /\ calls[Len(calls)].op = "render"
    /\ pending > 0
    /\ ~isRunning

\* ---------------------------------------------------------------------
\* StateManager claims
\* ---------------------------------------------------------------------

\* the seven edges of the game's state diagram
StateEdges ==
    { <<LOADING, MENU>>, <<MENU, PLAYING>>, <<PLAYING, PAUSED>>,
      <<PLAYING, GAME_OVER>>, <<PAUSED, PLAYING>>, <<PAUSED, MENU>>,
      <<GAME_OVER, MENU>> }

\* C31: setState(s) succeeds iff (current, s) is one of the seven edges
\* LOADING->MENU, MENU->PLAYING, PLAYING->PAUSED, PLAYING->GAME_OVER,
\* PAUSED->PLAYING, PAUSED->MENU, GAME_OVER->MENU; otherwise it throws,
\* leaves the current state unchanged and notifies no handler. Hence the
\* current state only ever changes along these edges.
C31_SetStateFollowsEdges ==
    [][/\ (\E s \in GameStateType, t \in SUBSET StateHandlers : SetState(s, t)) =>
              LET s == stateCall'.arg IN
              /\ stateCall'.threw = (<<currentState, s>> \notin StateEdges)
              /\ IF stateCall'.threw
                 THEN currentState' = currentState /\ stateCall'.notified = <<>>
                 ELSE /\ currentState' = s
                      /\ Len(stateCall'.notified) = Len(stateChangeHandlers)
                      /\ \A i \in 1..Len(stateChangeHandlers) :
                            /\ stateCall'.notified[i].handler = stateChangeHandlers[i]
                            /\ stateCall'.notified[i].prevState = currentState
                            /\ stateCall'.notified[i].newState = s
       /\ (currentState' # currentState) =>
              <<currentState, currentState'>> \in StateEdges]_vars

\* a setState was refused with handlers registered, in a game that had been
\* played and paused
C31_Witness ==
    /\ stateCall.op = "setState"
    /\ stateCall.threw
    /\ stateCall.arg = GAME_OVER
    /\ currentState = PAUSED
    /\ Len(stateChangeHandlers) = 2

\* a setState along an edge notified both handlers, one of which threw
SetStateNotifiedPastThrow ==
    /\ stateCall.op = "setState"
    /\ ~stateCall.threw
    /\ Len(stateCall.notified) = 2
    /\ stateCall.notified[1].threw
    /\ currentState = stateCall.arg

\* C32: resetGame() called in any state resets the game to initial values:
\* afterwards the current state is MENU and gameData is score 0, level 1,
\* lives 3, isPaused false with highScore preserved; it never leaves
\* gameData reset while the state stays unchanged.
C32_ResetGameReachesMenu ==
    [][(\E t \in SUBSET StateHandlers : ResetGame(t)) =>
          /\ currentState' = MENU
          /\ gameData' = [score |-> 0, level |-> 1, lives |-> 3,
                          highScore |-> gameData.highScore, isPaused |-> FALSE]
          /\ ~(gameData' # gameData /\ currentState' = currentState)]_vars

\* resetGame() from a state that has an edge to MENU does what is said
ResetGameFromEdgeToMenu ==
    [][((\E t \in SUBSET StateHandlers : ResetGame(t))
            /\ <<currentState, MENU>> \in StateEdges) =>
          /\ currentState' = MENU
          /\ ~stateCall'.threw
          /\ gameData' = [score |-> 0, level |-> 1, lives |-> 3,
                          highScore |-> gameData.highScore, isPaused |-> FALSE]]_vars

\* resetGame() threw in the middle of a game: the data is reset and the
\* game is still playing
ResetGameLeftPlaying ==
    /\ stateCall.op = "resetGame"
    /\ stateCall.threw
    /\ currentState = PLAYING
    /\ gameData.score = 0
    /\ gameData.highScore = 500

\* ---------------------------------------------------------------------
\* ShootingSystem claims
\* ---------------------------------------------------------------------

\* what a shoot call may do to the map of shot times: it is refused by the
\* cooldown whenever less than cooldownTime has passed since the recorded
\* time, and it records its time when and only when it returns a projectile
ShootRecordsWhenObtained ==
    (shootCalls' = shootCalls + 1) =>
        LET e == shootCall'.entity
            t == shootCall'.t
        IN
        /\ (shootCall'.ret /\ e \in DOMAIN lastShotTime) =>
               t - lastShotTime[e] >= cooldownTime
        /\ shootCall'.ret =>
               /\ e \in DOMAIN lastShotTime'
               /\ lastShotTime'[e] = t
               /\ \A o \in DOMAIN lastShotTime' \ {e} :
                     o \in DOMAIN lastShotTime /\ lastShotTime'[o] = lastShotTime[o]
        /\ ~shootCall'.ret =>
               /\ lastShotTime' = lastShotTime
               /\ shootCall'.refusedBy \in {"cooldown", "pool"}
        /\ shootCall'.refusedBy = "pool" => shootActive = maxProjectiles

ShotRefusedByPool ==
    /\ shootCall.op = "shoot"
    /\ shootCall.refusedBy = "pool"
    /\ shootCall.entity \notin DOMAIN lastShotTime

\* ---------------------------------------------------------------------
\* KeyboardInput claims
\* ---------------------------------------------------------------------

\* C34: while KeyboardInput is enabled, after a keydown for a key that was
\* not pressed, isKeyJustPressed(key) is true until the next update() call
\* and false after it, for every sequence of key events for that key
\* delivered before the update (repeated keydown events included).
C34_JustPressedUntilUpdate ==
    /\ enabled => \A k \in KeyCodes : sinceDown[k] >= 1 => isKeyJustPressed(k)
    /\ keyCall.op = "update" => \A k \in KeyCodes : ~isKeyJustPressed(k)

\* the same with no further event for the key between its keydown and the
\* update
JustPressedWhenKeyLeftAlone ==
    /\ enabled => \A k \in KeyCodes : sinceDown[k] = 1 => isKeyJustPressed(k)
    /\ keyCall.op = "update" => \A k \in KeyCodes : ~isKeyJustPressed(k)

\* a key went down and its keydown was repeated before update(): the key
\* is held and does not count as just pressed
JustPressedLostToRepeat ==
    /\ enabled
    /\ keyCall = [op |-> "keydown", code |-> "Space"]
    /\ sinceDown["Space"] = 2
    /\ isKeyPressed("Space")
    /\ ~isKeyJustPressed("Space")

\* ---------------------------------------------------------------------
\* GameLoop claims: callbacks with the host, update errors
\* ---------------------------------------------------------------------

\* C35: for every interleaving of start(), stop() and host frame
\* deliveries (in particular stop() followed by start() before the
\* scheduled callback has fired), at most one frame callback is pending
\* with the host at any time, so each host frame runs loop() at most once.
C35_OneCallbackPending == pending <= 1

\* every pending callback goes back to a start() that took effect
PendingAtMostStarts == pending <= starts

\* two callbacks are pending for a running loop that no frame has reached
TwoCallbacksPending ==
    /\ pending = 2
    /\ isRunning
    /\ frames = 0
    /\ starts = 2


\* C36: when a system's update throws in a drain step there is no
\* partial-tick recovery: the systems registered before the throwing one
\* have been updated for that step and stay so, the systems registered
\* after it are not updated, and the accumulator is not decremented for
\* the failed step.
C36_NoPartialTickRecovery ==
    [][(frames' = frames + 1 /\ frame'.updateThrew) =>
          LET n == Len(systems)
              done == frame'.passes * n
              k == Len(calls') - done
          IN
          /\ k \in 1..n
          /\ \A i \in 1..k :
                /\ calls'[done + i].op = "update"
                /\ calls'[done + i].sys = systems[i]
                /\ calls'[done + i].pass = frame'.passes + 1
                /\ calls'[done + i].threw = (i = k)
          /\ \A j \in 1..done : calls'[j].op = "update" /\ ~calls'[j].threw
          /\ accumulator' =
                accumulator + frame'.added - frame'.passes * updateInterval
          /\ accumulator' >= updateInterval]_vars

\* the second of three systems threw in the second pass of a frame: four
\* updates had been made before it and the third system was left out
C36_Witness ==
    /\ frame.ran
    /\ frame.updateThrew
    /\ Len(systems) = 3
    /\ frame.passes = 1
    /\ Len(calls) = 5
    /\ calls[5].threw
    /\ accumulator >= updateInterval

\* ---------------------------------------------------------------------
\* ProjectilePool claims: slots handed out and slots kept
\* ---------------------------------------------------------------------

\* a successful acquire returns a slot that was not in the active set, and
\* the active count grows by one
AcquireHandsOutUntracked ==
    (lastCall'.op = "acquire" /\ lastCall'.ret # Null) =>
        /\ lastCall'.ret \notin activeProjectiles
        /\ Cardinality(activeProjectiles') = getActiveCount + 1

AcquireUntrackedWithoutHolders == [][AcquireHandsOutUntracked]_poolVars

RegistryIndex(o) == CHOOSE i \in 1..Len(entities) : entities[i] = o

\* C40: in the event passed to a collision handler, entity1 is always the
\* entity of the pair that comes earlier in the registry and entity2 the
\* later one, whatever the order of the type tags the handler was
\* registered with; so a handler registered as (tA, tB) can receive an
\* entity1 of type tB.
C40_Entity1IsEarlierRegistered ==
    Updated =>
        \A k \in 1..Len(Tick.log) :
            /\ Tick.log[k].entity1 \in Range(entities)
            /\ Tick.log[k].entity2 \in Range(entities)
            /\ RegistryIndex(Tick.log[k].entity1) < RegistryIndex(Tick.log[k].entity2)

\* the only handler is registered as (player, enemy) and has been handed an
\* event whose entity1 is an enemy, registered before the player
C40_Witness ==
    /\ Updated
    /\ DOMAIN collisionHandlers = {"player:enemy"}
    /\ Len(entities) >= 2
    /\ entities[1].type = ENEMY
    /\ \E k \in 1..Len(Tick.log) :
          /\ Tick.log[k].entity1 = entities[1]
          /\ Tick.log[k].entity2.type = PLAYER
          /\ Tick.log[k].handler = collisionHandlers["player:enemy"]


\* the entity that the tick's deactivating handler switched off
DeactivatedEntity ==
    IF Tick.deactivated.side = 1
    THEN Tick.log[Tick.deactivated.at].entity1
    ELSE Tick.log[Tick.deactivated.at].entity2

\* entity o is active as invocation k of the tick begins
ActiveAtInvocation(o, k) ==
    /\ Tick.active[o]
    /\ ~(/\ Tick.deactivated.at # 0
         /\ Tick.deactivated.at < k
         /\ DeactivatedEntity = o)

\* C39: during update(), every handler invocation receives two entities
\* that are both active at the moment of the invocation: an entity
\* deactivated by a handler earlier in the same tick takes part in no
\* further collision of that tick.
C39_HandlersGetActiveEntities ==
    Updated =>
        \A k \in 1..Len(Tick.log) :
            /\ ActiveAtInvocation(Tick.log[k].entity1, k)
            /\ ActiveAtInvocation(Tick.log[k].entity2, k)

\* both entities of every invocation were active when update() began
HandlersGetEntitiesActiveAtStart ==
    Updated =>
        \A k \in 1..Len(Tick.log) :
            Tick.active[Tick.log[k].entity1] /\ Tick.active[Tick.log[k].entity2]

\* the first handler of a tick deactivated its entity2, and the second
\* invocation was made with that entity as entity1
DeactivatedEntityCollidedAgain ==
    /\ Updated
    /\ Tick.deactivated = [at |-> 1, side |-> 2]
    /\ Len(Tick.log) >= 2
    /\ Tick.log[2].entity1 = Tick.log[1].entity2

====
